---- MODULE Spec2Model ----
(***************************************************************************)
(* A model of the image file server and client of                          *)
(* CameraEmulation/TcpFrameProviders/ImageFileAsFrameSource.py:            *)
(* the image path generator, the sequencer (__read_image_from_generator),  *)
(* start_server, the serving thread (__server_loop and                     *)
(* __handle_client_connection), the control API called from another        *)
(* thread, the byte streams of one TCP connection and the client calls.    *)
(***************************************************************************)
EXTENDS Integers, Sequences, FiniteSets, TLC

(***************************************************************************)
(* Bounds of the model.                                                    *)
(***************************************************************************)
\* the largest number of image files in the served directory
MaxImages == 2
\* the largest number of directory entries in the generator specification
MaxFiles == 3
\* chunk_size, in bytes (a constructor argument of the server)
ChunkSize == 3
\* 1 / frame_rate, in clock ticks
FrameInterval == 2
\* the client calls of one behaviour in which only the client asks for
\* the next image
MaxOps == 4
\* the client calls of one behaviour in which the control thread asks too
MaxOpsCtl == 2
\* the request_next_image calls of the control thread in one behaviour
MaxCtl == 1
\* the connections counted by the history variable `ended`
MaxEnded == 2
\* what a peer that uses the socket itself does in one behaviour
MaxPeerOps == 4
\* MAX_HEADER_SIZE of get_frame (65536 in the source), scaled to the header
\* lines of the read specification, which are 8 bytes long
MAX_HEADER_SIZE == 9

(***************************************************************************)
(* Paths.  A path is a sequence of tokens; "/" and "." are tokens of their *)
(* own, so that the substring test and pathlib's suffix are computed.      *)
(***************************************************************************)
\* the current working directory, the prefix Path.absolute() adds
Cwd == <<"/", "w">>

\* the (relative) root directory the server is given
RootDir == <<"r">>

\* os.path.join(root, file)
JoinPath(root, file) == root \o <<"/">> \o file

\* Path.absolute() of a relative path
Absolute(p) == Cwd \o <<"/">> \o p

\* Python's `pattern in text` on strings
IsSubstring(pattern, text) ==
    \E i \in 0..(Len(text) - Len(pattern)) :
        SubSeq(text, i + 1, i + Len(pattern)) = pattern

\* the index of the last "." of a name, 0 when there is none (str.rfind)
RFindDot(name) ==
    IF \E i \in 1..Len(name) : name[i] = "."
    THEN CHOOSE i \in 1..Len(name) :
            /\ name[i] = "."
            /\ \A j \in (i + 1)..Len(name) : name[j] # "."
    ELSE 0

\* pathlib's PurePath.suffix of the last component: the text from the last
\* dot on, unless that dot is the first or the last character of the name
Suffix(name) ==
    LET i == RFindDot(name)
    IN  IF i > 1 /\ i < Len(name) THEN SubSeq(name, i, Len(name)) ELSE <<>>

(***************************************************************************)
(* __get_image_file_name_generator.  os.walk lists, directory by           *)
(* directory, the entries that are not directories; an entry is            *)
(* [root, file, kind, img]: kind "file" is what os.path.isfile accepts,    *)
(* kind "other" a fifo, a socket or a dangling link; img is the content    *)
(* (0: not decodable, i > 0: image number i).                              *)
(***************************************************************************)
\* the generator's loop without its os.path.isfile test
GenSkipsNoFileCheck(entry, skip_pattern) ==
    LET file_path == JoinPath(entry.root, entry.file)
    IN  IF \E pattern \in skip_pattern : IsSubstring(pattern, Absolute(file_path))
        THEN FALSE
        ELSE LET entry_extension == Suffix(entry.file)
             IN  ~ (entry_extension # <<".", "jpg">> /\ entry_extension # <<".", "png">>)

\* the body of the generator's loop: TRUE when the entry is yielded, FALSE
\* when one of the three `continue` statements skips it
GenYields(entry, skip_pattern) ==
    LET file_path == JoinPath(entry.root, entry.file)
    IN  IF \E pattern \in skip_pattern : IsSubstring(pattern, Absolute(file_path))
        THEN FALSE
        ELSE IF entry.kind # "file"
        THEN FALSE
        ELSE LET entry_extension == Suffix(entry.file)
             IN  ~ (entry_extension # <<".", "jpg">> /\ entry_extension # <<".", "png">>)

\* next(generator): the generator stands after entry `pos` of the walk; the
\* result is the index of the next entry it yields, 0 for StopIteration
GenNext(walk, skip_pattern, pos) ==
    IF \E j \in (pos + 1)..Len(walk) : GenYields(walk[j], skip_pattern)
    THEN CHOOSE j \in (pos + 1)..Len(walk) :
            /\ GenYields(walk[j], skip_pattern)
            /\ \A k \in (pos + 1)..(j - 1) : ~ GenYields(walk[k], skip_pattern)
    ELSE 0

(***************************************************************************)
(* Image files.  np.array(PIL.Image.open(path)) gives an array whose shape *)
(* is (height, width, channels) for a colour image and (height, width) for *)
(* a greyscale one; tobytes() gives height*width*channels bytes.           *)
(***************************************************************************)
\* image.shape of image number img
ShapeOf(img) ==
    CASE img = 1 -> <<1, 1, 3>>
      [] img = 2 -> <<2, 2>>
      [] img = 3 -> <<2, 1>>
      [] OTHER   -> <<1, 2, 3>>

\* len(image.tobytes())
BufLen(img) ==
    IF img = 0 THEN 0
    ELSE LET s == ShapeOf(img)
         IN  IF Len(s) = 3 THEN s[1] * s[2] * s[3] ELSE s[1] * s[2]

FileNames == <<"a", "b", "c", "e", "f", "g">>

\* image file number i of the served directory: odd ones are .jpg files of
\* the root, even ones .png files of the subdirectory d
ImgEntry(i) ==
    [root |-> IF i % 2 = 1 THEN RootDir ELSE RootDir \o <<"/", "d">>,
     file |-> <<FileNames[i], ".", IF i % 2 = 1 THEN "jpg" ELSE "png">>,
     kind |-> "file", img |-> i]

\* a file that is no image
TxtEntry == [root |-> RootDir, file |-> <<"n", ".", "txt">>, kind |-> "file", img |-> 0]

\* a .jpg file that PIL cannot decode
BadEntry == [root |-> RootDir, file |-> <<"x", ".", "jpg">>, kind |-> "file", img |-> 0]

\* what os.walk lists for a root with k images, behind a text file (and
\* behind an undecodable .jpg when corrupt)
ServedDir(k, corrupt) ==
    (IF corrupt THEN <<BadEntry>> ELSE <<>>) \o <<TxtEntry>> \o [i \in 1..k |-> ImgEntry(i)]

\* the entries of the generator specification
EntryUniverse ==
    { [root |-> RootDir, file |-> <<"a", ".", "jpg">>, kind |-> "file", img |-> 1],
      [root |-> RootDir, file |-> <<"b", ".", "png">>, kind |-> "file", img |-> 2],
      [root |-> RootDir, file |-> <<"a", ".", "JPG">>, kind |-> "file", img |-> 1],
      [root |-> RootDir, file |-> <<"a", ".", "jpg", ".", "txt">>, kind |-> "file", img |-> 0],
      [root |-> RootDir \o <<"/", "s">>, file |-> <<"a", ".", "jpg">>, kind |-> "file", img |-> 1],
      [root |-> RootDir, file |-> <<".", "jpg">>, kind |-> "file", img |-> 1],
      [root |-> RootDir, file |-> <<"c", ".", "jpg">>, kind |-> "other", img |-> 0],
      [root |-> RootDir, file |-> <<"a", ".", "s", ".", "png">>, kind |-> "file", img |-> 2],
      [root |-> RootDir, file |-> <<"jpg">>, kind |-> "file", img |-> 1] }

SkipChoices == { {}, {<<"s">>}, {<<"/", "s", "/">>}, {<<"w">>}, {<<"b", ".">>, <<"JPG">>} }

\* the sequences over S of length at most n
SeqsUpTo(S, n) == UNION { [1..k -> S] : k \in 0..n }

(***************************************************************************)
(* State.                                                                  *)
(***************************************************************************)
VARIABLES
    \* the environment and the constructor arguments
    walk,                   \* what os.walk(image_path_root) lists
    skip_pattern,           \* the generator's skip_pattern
    repeat,                 \* ImageFileServer.__repeat
    root_is_dir,            \* os.path.isdir(image_path_root)
    port_free,              \* whether bind and listen succeed
    advancers,              \* who asks for the next image: "ctl", "cli", "both"
    script,                 \* the calls the client's caller makes; <<>>: any calls
    read_timeout,           \* the client's read_timeout: "long" outlasts every wait for the
                            \* server's answer, "short" may end while the server paces or sends
    close_raises,           \* whether socket.close() may raise OSError
    \* the ImageFileServer object
    image_file_name_gen,    \* -1: None; otherwise the walk entry the generator stands after
    current_image_path,     \* 0: None; otherwise an index of walk
    output_buffer,          \* 0: None; otherwise the image number whose bytes it holds
    image_shape,            \* __image_shape
    server_stop_requested,  \* __server_stop_requested
    server_socket,          \* "None", "listening", "closed"
    start_result,           \* what start_server gave: "none" (not returned), "True", "False", "raised"
    \* the threads: "ctl" calls the public methods, "srv" runs __server_loop
    pc,                     \* where each thread stands
    adv_image,              \* the local `image` of each thread's __read_image_from_generator
    ctl_left,               \* request_next_image calls the control thread has yet to make
    \* locals of __handle_client_connection and its callees
    elapsed,                \* time.time() - last_frame_time, saturated at FrameInterval
    wake,                   \* ticks left of time.sleep(wait_time)
    request_bytes,          \* request_bytes of __read_client_request
    request,                \* request.message of the request being handled ("none": none)
    hdr,                    \* height, width, channels read for the header
    chunk_start,            \* chunk_start of __write_image_and_header_to_client
    \* the TCP connection
    conn,                   \* [cli, srv]: the state of its two ends
    c2s,                    \* what the client sent and the server has not read
    s2c,                    \* what the server sent and the client has not read
    \* the ImageFileClient object and its caller
    cl_socket,              \* "None", "open", or "stale": a socket whose close() raised
    streaming,              \* __streaming
    cpc,                    \* where the client's current call stands
    cl_hdr,                 \* image_header of get_frame
    bytes_read,             \* bytes_read of get_frame
    calls_left,             \* calls the client's caller has yet to make
    last_result,            \* the last call made on the client and what it returned
    log,                    \* the get_frame and request_next_image calls on the connection
    \* get_frame and __request_server_info byte by byte (the read specification)
    wire,                   \* all the bytes the peer sends in answer to the request
    header_bytes,           \* header_bytes of get_frame, response bytes of __request_server_info
    image_bytes,            \* the payload bytes get_frame has received
    frame,                  \* the GrabbedImage get_frame returned (NoFrame: none)
    reads,                  \* the recv_into calls of the header loop, and the one that met the newline
    \* the rest of the ImageFileClient object, and its sockets
    image_width,            \* __image_width
    image_height,           \* __image_height
    fps,                    \* __fps, as numerator and denominator (frames per tick)
    camera_pixel_format,    \* __camera_pixel_format, the name of the enum member
    sockets,                \* sockets the client has opened and not closed
    called,                 \* the method of the caller's latest call
    conn_lost,              \* a get_frame found the connection closed by the server
    \* the scratch buffer of the client and the threads that read into it
    input_chunk_buffer,     \* __input_chunk_buffer
    buffer_lock,            \* __buffer_lock: 0, or the thread that holds it
    thr,                    \* the get_frame or __request_server_info call of each thread
    \* history
    advances,               \* the __read_image_from_generator calls that returned or raised
    frame_gap,              \* ticks between the last two frames sent on the connection (-1: none yet)
    since_sent,             \* ticks since the last frame was sent on the connection (-1: none yet)
    frame_payload,          \* payload bytes written after the last header
    discarded,              \* what the last __read_client_request read behind the newline
    ended,                  \* connections the serving thread has closed, up to MaxEnded
    yielded,                \* what the generator of the generator specification yielded
    reported,               \* the ImageServerInfo the server built last
    since_info              \* ticks since a server info was sent on the connection (-1: none yet)

envVars == <<walk, skip_pattern, repeat, root_is_dir, port_free, advancers, script, read_timeout, close_raises>>
seqVars == <<image_file_name_gen, current_image_path, output_buffer, image_shape, adv_image, advances>>
srvLocals == <<elapsed, wake, request_bytes, request, hdr, chunk_start>>
connVars == <<conn, c2s, s2c>>
readVars == <<wire, header_bytes, image_bytes, frame, reads>>
sizeVars == <<image_width, image_height, fps, camera_pixel_format>>
lifeVars == <<image_width, image_height, fps, camera_pixel_format, sockets, called, conn_lost>>
bufVars == <<input_chunk_buffer, buffer_lock, thr>>
cliVars == <<cl_socket, streaming, cpc, cl_hdr, bytes_read, calls_left, last_result, log, readVars,
             lifeVars, bufVars>>
ghostVars == <<frame_gap, since_sent, frame_payload, discarded, ended, yielded, reported,
              since_info>>

vars == <<walk, skip_pattern, repeat, root_is_dir, port_free, advancers, script, read_timeout,
          close_raises,
          image_file_name_gen, current_image_path, output_buffer, image_shape,
          server_stop_requested, server_socket, start_result, pc, adv_image, ctl_left,
          elapsed, wake, request_bytes, request, hdr, chunk_start, conn, c2s, s2c,
          cl_socket, streaming, cpc, cl_hdr, bytes_read, calls_left, last_result, log,
          wire, header_bytes, image_bytes, frame, reads,
          image_width, image_height, fps, camera_pixel_format, sockets, called, conn_lost,
          input_chunk_buffer, buffer_lock, thr,
          advances, frame_gap, since_sent, frame_payload, discarded, ended, yielded, reported,
          since_info>>

NoConn == [cli |-> "none", srv |-> "none"]

Min(a, b) == IF a < b THEN a ELSE b

\* the threads that call the client in the buffer specification
Threads == {1, 2}

\* a thread that is in no call
NoCall ==
    [pc |-> "none", op |-> "none", received |-> 0, got |-> <<>>, header_bytes |-> <<>>,
     total_bytes |-> 0, image_bytes |-> <<>>, res |-> "none", torn |-> FALSE]

\* the members of PixelFormatEnum, in the order of their values 0..7
PixelFormatMembers ==
    <<"BGR8", "RGB8", "MONO8", "BayerGR8", "BayerBG8", "BayerRG8", "BayerGB8", "UNKNOWN">>

\* PixelFormatEnum.<name>.value
PixelFormatValue(name) ==
    (CHOOSE i \in 1..Len(PixelFormatMembers) : PixelFormatMembers[i] = name) - 1

\* PixelFormatEnum(value), were the members counted from 1
PixelFormatEnumCountsFromOne(value) ==
    IF value \in 1..Len(PixelFormatMembers)
    THEN PixelFormatMembers[value] ELSE "ValueError"

\* PixelFormatEnum(value): the member of that value, "ValueError" when
\* there is none
PixelFormatEnum(value) ==
    IF value \in 0..(Len(PixelFormatMembers) - 1)
    THEN PixelFormatMembers[value + 1] ELSE "ValueError"

\* self.__frame_rate of the server: one frame in FrameInterval ticks
frame_rate == <<1, FrameInterval>>

\* no ImageServerInfo
NoInfo ==
    [fps |-> <<0, 1>>, image_width |-> 0, image_height |-> 0, camera_pixel_format |-> "none"]

\* no GrabbedImage
NoFrame == [shape |-> <<>>, pixel_format |-> "none", image_file_name |-> "none", data |-> <<>>]

\* the state after ImageFileServer.__init__ and ImageFileClient.__init__
InitObjects ==
    /\ image_file_name_gen = -1
    /\ current_image_path = 0
    /\ output_buffer = 0
    /\ image_shape = <<0, 0, 0>>
    /\ server_stop_requested = FALSE
    /\ server_socket = "None"
    /\ start_result = "none"
    /\ adv_image = [t \in {"srv", "ctl"} |-> 0]
    /\ elapsed = FrameInterval
    /\ wake = 0
    /\ request_bytes = <<>>
    /\ request = "none"
    /\ hdr = <<0, 0, 0>>
    /\ chunk_start = 0
    /\ conn = NoConn
    /\ c2s = <<>>
    /\ s2c = <<>>
    /\ cl_socket = "None"
    /\ streaming = FALSE
    /\ cpc = "idle"
    /\ cl_hdr = <<0, 0, 0, 0>>
    /\ bytes_read = 0
    /\ last_result = [op |-> "none", res |-> "none"]
    /\ log = <<>>
    /\ header_bytes = <<>>
    /\ image_bytes = <<>>
    /\ frame = NoFrame
    /\ reads = [n |-> 0, at |-> 0, len |-> 0]
    /\ image_width = 0
    /\ image_height = 0
    /\ fps = <<0, 1>>
    /\ camera_pixel_format = "UNKNOWN"
    /\ reported = NoInfo
    /\ since_info = -1
    /\ sockets = 0
    /\ called = "none"
    /\ conn_lost = FALSE
    /\ input_chunk_buffer = [i \in 1..ChunkSize |-> <<"0">>]
    /\ buffer_lock = 0
    /\ thr = [t \in Threads |-> NoCall]
    /\ advances = <<>>
    /\ frame_gap = -1
    /\ since_sent = -1
    /\ frame_payload = 0
    /\ discarded = <<>>
    /\ ended = 0
    /\ yielded = <<>>

\* the end-to-end scenario over k images: connect, get_frame twice, then k
\* times request_next_image and get_frame
RECURSIVE NextAndGet(_)
NextAndGet(k) == IF k = 0 THEN <<>> ELSE <<"next", "get_frame">> \o NextAndGet(k - 1)

EndToEnd(k) == <<"start", "get_frame", "get_frame">> \o NextAndGet(k)

\* any calls on the server and the client, within the bounds
InitAnyCalls ==
    /\ wire = <<>>
    /\ \E k \in 0..MaxImages, corrupt \in BOOLEAN : walk = ServedDir(k, corrupt)
    /\ root_is_dir \in BOOLEAN
    /\ port_free \in BOOLEAN
    /\ script = <<>>
    /\ \/ advancers = "cli" /\ calls_left = MaxOps /\ ctl_left = 0
       \/ advancers \in {"ctl", "both"} /\ calls_left = MaxOpsCtl /\ ctl_left = MaxCtl

\* the end-to-end scenario: after start_server the server is left alone
InitEndToEnd ==
    /\ wire = <<>>
    /\ \E k \in 1..MaxImages : walk = ServedDir(k, FALSE) /\ script = EndToEnd(k)
    /\ root_is_dir = TRUE
    /\ port_free = TRUE
    /\ advancers = "cli"
    /\ calls_left = Len(script)
    /\ ctl_left = 0

Init ==
    /\ read_timeout = "long"
    /\ close_raises = FALSE
    /\ skip_pattern = {}
    /\ repeat \in BOOLEAN
    /\ InitAnyCalls \/ InitEndToEnd
    /\ pc = [srv |-> "none", ctl |-> "start"]
    /\ InitObjects

(***************************************************************************)
(* __read_image_from_generator, statement by statement, run by thread t.   *)
(* It ends with Return(t, r): r is "True", "False" or "raised".            *)
(***************************************************************************)
\* where thread t goes on when its __read_image_from_generator call is over
AfterAdvance(t, r) ==
    IF t = "ctl"
    THEN IF start_result = "none" THEN "start_" \o r ELSE "idle"
    ELSE CASE r = "True"  -> "ni_ok"
           [] r = "False" -> "h_top"
           [] OTHER       -> "close"

Return(t, r, img) ==
    /\ pc' = [pc EXCEPT ![t] = AfterAdvance(t, r)]
    /\ advances' = Append(advances, [by |-> t, res |-> r, img |-> img])

\* __init_file_name_generator
InitFileNameGenerator ==
    IF root_is_dir THEN image_file_name_gen' = 0 ELSE UNCHANGED image_file_name_gen

\* the first statements of __read_image_from_generator, were the stop
\* flag left alone when the generator is exhausted
AdvNextLeavesStopFlag(t) ==
    /\ pc[t] = "adv_next"
    /\ image_file_name_gen >= 0
    /\ LET j == GenNext(walk, skip_pattern, image_file_name_gen)
       IN  IF j > 0
           THEN /\ current_image_path' = j
                /\ image_file_name_gen' = j
                /\ pc' = [pc EXCEPT ![t] = "adv_open"]
                /\ UNCHANGED advances
           ELSE /\ image_file_name_gen' = Len(walk)
                /\ UNCHANGED current_image_path
                /\ IF ~ repeat
                   THEN Return(t, "False", 0)
                   ELSE /\ pc' = [pc EXCEPT ![t] = "adv_reinit"]
                        /\ UNCHANGED advances
    /\ UNCHANGED <<envVars, output_buffer, image_shape, adv_image, server_stop_requested,
                   server_socket, start_result, ctl_left, srvLocals, connVars, cliVars, ghostVars>>

\* try: self.__current_image_path = next(self.__image_file_name_gen)
\* except StopIteration: if not self.__repeat: set the flag, return False
AdvNext(t) ==
    /\ pc[t] = "adv_next"
    /\ image_file_name_gen >= 0
    /\ LET j == GenNext(walk, skip_pattern, image_file_name_gen)
       IN  IF j > 0
           THEN /\ current_image_path' = j
                /\ image_file_name_gen' = j
                /\ pc' = [pc EXCEPT ![t] = "adv_open"]
                /\ UNCHANGED <<server_stop_requested, advances>>
           ELSE /\ image_file_name_gen' = Len(walk)
                /\ UNCHANGED current_image_path
                /\ IF ~ repeat
                   THEN /\ server_stop_requested' = TRUE
                        /\ Return(t, "False", 0)
                   ELSE /\ pc' = [pc EXCEPT ![t] = "adv_reinit"]
                        /\ UNCHANGED <<server_stop_requested, advances>>
    /\ UNCHANGED <<envVars, output_buffer, image_shape, adv_image, server_socket, start_result,
                   ctl_left, srvLocals, connVars, cliVars, ghostVars>>

\* the except clause, were the exhausted generator kept
AdvReinitKeepsGenerator(t) ==
    /\ pc[t] = "adv_reinit"
    /\ pc' = [pc EXCEPT ![t] = "adv_renext"]
    /\ UNCHANGED <<envVars, seqVars, server_stop_requested, server_socket, start_result, ctl_left,
                   srvLocals, connVars, cliVars, ghostVars>>

\* self.__init_file_name_generator()
AdvReinit(t) ==
    /\ pc[t] = "adv_reinit"
    /\ InitFileNameGenerator
    /\ pc' = [pc EXCEPT ![t] = "adv_renext"]
    /\ UNCHANGED <<envVars, current_image_path, output_buffer, image_shape, adv_image, advances,
                   server_stop_requested, server_socket, start_result, ctl_left,
                   srvLocals, connVars, cliVars, ghostVars>>

\* self.__current_image_path = next(self.__image_file_name_gen), in the
\* except clause: a StopIteration here leaves the method as an exception
AdvRenext(t) ==
    /\ pc[t] = "adv_renext"
    /\ LET j == GenNext(walk, skip_pattern, image_file_name_gen)
       IN  IF j > 0
           THEN /\ current_image_path' = j
                /\ image_file_name_gen' = j
                /\ pc' = [pc EXCEPT ![t] = "adv_open"]
                /\ UNCHANGED advances
           ELSE /\ image_file_name_gen' = Len(walk)
                /\ UNCHANGED current_image_path
                /\ Return(t, "raised", 0)
    /\ UNCHANGED <<envVars, output_buffer, image_shape, adv_image,
                   server_stop_requested, server_socket, start_result, ctl_left,
                   srvLocals, connVars, cliVars, ghostVars>>

\* image = np.array(PIL.Image.open(str(self.__current_image_path)))
AdvOpen(t) ==
    /\ pc[t] = "adv_open"
    /\ IF walk[current_image_path].img = 0
       THEN /\ Return(t, "raised", 0)
            /\ UNCHANGED adv_image
       ELSE /\ adv_image' = [adv_image EXCEPT ![t] = walk[current_image_path].img]
            /\ pc' = [pc EXCEPT ![t] = "adv_buf"]
            /\ UNCHANGED advances
    /\ UNCHANGED <<envVars, image_file_name_gen, current_image_path, output_buffer, image_shape,
                   server_stop_requested, server_socket, start_result, ctl_left,
                   srvLocals, connVars, cliVars, ghostVars>>

\* self.__output_buffer = image.tobytes()
AdvBuf(t) ==
    /\ pc[t] = "adv_buf"
    /\ output_buffer' = adv_image[t]
    /\ pc' = [pc EXCEPT ![t] = "adv_shape"]
    /\ UNCHANGED <<envVars, image_file_name_gen, current_image_path, image_shape, adv_image,
                   advances, server_stop_requested, server_socket, start_result, ctl_left,
                   srvLocals, connVars, cliVars, ghostVars>>

\* self.__image_shape = image.shape; return True
AdvShape(t) ==
    /\ pc[t] = "adv_shape"
    /\ image_shape' = ShapeOf(adv_image[t])
    /\ Return(t, "True", adv_image[t])
    /\ UNCHANGED <<envVars, image_file_name_gen, current_image_path, output_buffer, adv_image,
                   server_stop_requested, server_socket, start_result, ctl_left,
                   srvLocals, connVars, cliVars, ghostVars>>

ReadImageFromGenerator(t) ==
    AdvNext(t) \/ AdvReinit(t) \/ AdvRenext(t) \/ AdvOpen(t) \/ AdvBuf(t) \/ AdvShape(t)

(***************************************************************************)
(* The control thread: start_server, request_next_image,                   *)
(* request_server_stop.                                                    *)
(***************************************************************************)
\* start_server up to its first __read_image_from_generator call
StartServerInit ==
    /\ pc["ctl"] = "start"
    /\ InitFileNameGenerator
    /\ IF root_is_dir
       THEN /\ pc' = [pc EXCEPT !["ctl"] = "adv_next"]
            /\ UNCHANGED <<server_stop_requested, start_result>>
       ELSE /\ server_stop_requested' = TRUE
            /\ start_result' = "False"
            /\ pc' = [pc EXCEPT !["ctl"] = "off"]
    /\ UNCHANGED <<envVars, current_image_path, output_buffer, image_shape, adv_image, advances,
                   server_socket, ctl_left, srvLocals, connVars, cliVars, ghostVars>>

\* start_server after the first image was read: the thread is started
StartServerThread ==
    /\ pc["ctl"] = "start_True"
    /\ pc' = [pc EXCEPT !["ctl"] = "idle", !["srv"] = "bind"]
    /\ start_result' = "True"
    /\ UNCHANGED <<envVars, seqVars, server_stop_requested, server_socket, ctl_left,
                   srvLocals, connVars, cliVars, ghostVars>>

\* start_server when __read_image_from_generator returned False
StartServerFailed ==
    /\ pc["ctl"] = "start_False"
    /\ server_stop_requested' = TRUE
    /\ start_result' = "False"
    /\ pc' = [pc EXCEPT !["ctl"] = "off"]
    /\ UNCHANGED <<envVars, seqVars, server_socket, ctl_left,
                   srvLocals, connVars, cliVars, ghostVars>>

\* start_server when __read_image_from_generator raised: nothing catches it
StartServerRaised ==
    /\ pc["ctl"] = "start_raised"
    /\ start_result' = "raised"
    /\ pc' = [pc EXCEPT !["ctl"] = "off"]
    /\ UNCHANGED <<envVars, seqVars, server_stop_requested, server_socket, ctl_left,
                   srvLocals, connVars, cliVars, ghostVars>>

StartServer == StartServerInit \/ StartServerThread \/ StartServerFailed \/ StartServerRaised

\* request_next_image, called by the shell or a test on a started server
RequestNextImage ==
    /\ pc["ctl"] = "idle"
    /\ advancers \in {"ctl", "both"}
    /\ ctl_left > 0
    /\ ctl_left' = ctl_left - 1
    /\ pc' = [pc EXCEPT !["ctl"] = "adv_next"]
    /\ UNCHANGED <<envVars, seqVars, server_stop_requested, server_socket, start_result,
                   srvLocals, connVars, cliVars, ghostVars>>

\* request_server_stop
RequestServerStop ==
    /\ pc["ctl"] = "idle"
    /\ script = <<>>
    /\ ~ server_stop_requested
    /\ server_stop_requested' = TRUE
    /\ UNCHANGED <<envVars, seqVars, server_socket, start_result, pc, ctl_left,
                   srvLocals, connVars, cliVars, ghostVars>>

(***************************************************************************)
(* The serving thread: __server_loop.                                      *)
(***************************************************************************)
\* socket(), settimeout, bind, listen; on OSError the flag is set
ServerBind ==
    /\ pc["srv"] = "bind"
    /\ IF port_free
       THEN /\ server_socket' = "listening"
            /\ pc' = [pc EXCEPT !["srv"] = "loop"]
            /\ UNCHANGED server_stop_requested
       ELSE /\ server_socket' = "closed"
            /\ server_stop_requested' = TRUE
            /\ pc' = [pc EXCEPT !["srv"] = "done"]
    /\ UNCHANGED <<envVars, seqVars, start_result, ctl_left, srvLocals, connVars, cliVars, ghostVars>>

\* the loop of __server_loop, were the stop flag not looked at
ServerLoopTestIgnoresStop ==
    /\ pc["srv"] = "loop"
    /\ pc' = [pc EXCEPT !["srv"] = "accept"]
    /\ UNCHANGED <<envVars, seqVars, server_stop_requested, server_socket, start_result,
                   ctl_left, srvLocals, connVars, cliVars, ghostVars>>

\* while not self.__server_stop_requested
ServerLoopTest ==
    /\ pc["srv"] = "loop"
    /\ pc' = [pc EXCEPT !["srv"] = IF server_stop_requested THEN "done" ELSE "accept"]
    /\ UNCHANGED <<envVars, seqVars, server_stop_requested, server_socket, start_result,
                   ctl_left, srvLocals, connVars, cliVars, ghostVars>>

\* accept() returns a connection; __handle_client_connection starts with
\* last_frame_time = time.time() - frame_interval
ServerAccept ==
    /\ pc["srv"] = "accept"
    /\ conn.srv = "backlog"
    /\ conn' = [conn EXCEPT !.srv = "open"]
    /\ elapsed' = FrameInterval
    /\ pc' = [pc EXCEPT !["srv"] = "h_top"]
    /\ UNCHANGED <<envVars, seqVars, server_stop_requested, server_socket, start_result,
                   ctl_left, wake, request_bytes, request, hdr, chunk_start, c2s, s2c, cliVars, ghostVars>>

\* accept() times out after 3 seconds: continue
ServerAcceptTimeout ==
    /\ pc["srv"] = "accept"
    /\ conn.srv # "backlog"
    /\ pc' = [pc EXCEPT !["srv"] = "loop"]
    /\ UNCHANGED <<envVars, seqVars, server_stop_requested, server_socket, start_result,
                   ctl_left, srvLocals, connVars, cliVars, ghostVars>>

\* finally: client_socket.close().  Unread bytes make the close a reset.
ServerCloseClient ==
    /\ pc["srv"] = "close"
    /\ IF conn.cli = "closed"
       THEN /\ conn' = NoConn
            /\ s2c' = <<>>
       ELSE /\ conn' = [conn EXCEPT !.srv = IF c2s # <<>> THEN "rst" ELSE "fin"]
            /\ UNCHANGED s2c
    /\ c2s' = <<>>
    /\ request_bytes' = <<>>
    /\ request' = "none"
    /\ elapsed' = FrameInterval
    /\ wake' = 0
    /\ since_sent' = -1
    /\ frame_gap' = -1
    /\ since_info' = -1
    /\ ended' = Min(ended + 1, MaxEnded)
    /\ pc' = [pc EXCEPT !["srv"] = "loop"]
    /\ UNCHANGED <<envVars, seqVars, server_stop_requested, server_socket, start_result,
                   ctl_left, hdr, chunk_start, cliVars, frame_payload, discarded, yielded, reported>>

(***************************************************************************)
(* __handle_client_connection.                                             *)
(***************************************************************************)
\* the loop of __handle_client_connection, were the stop flag not looked at
HandleLoopTestIgnoresStop ==
    /\ pc["srv"] = "h_top"
    /\ pc' = [pc EXCEPT !["srv"] = "h_read"]
    /\ request_bytes' = <<>>
    /\ request' = "none"
    /\ UNCHANGED <<envVars, seqVars, server_stop_requested, server_socket, start_result,
                   ctl_left, elapsed, wake, hdr, chunk_start, connVars, cliVars, ghostVars>>

\* while not self.__server_stop_requested
HandleLoopTest ==
    /\ pc["srv"] = "h_top"
    /\ pc' = [pc EXCEPT !["srv"] = IF server_stop_requested THEN "close" ELSE "h_read"]
    /\ request_bytes' = <<>>
    /\ request' = "none"
    /\ UNCHANGED <<envVars, seqVars, server_stop_requested, server_socket, start_result,
                   ctl_left, elapsed, wake, hdr, chunk_start, connVars, cliVars, ghostVars>>

\* the bytes of a token: a request is json.dumps of {"message": ...}
TokenBytes(tok) ==
    CASE tok = "NL"              -> 1
      [] tok = "get_frame"       -> 24
      [] tok = "next_image"      -> 25
      [] tok = "get_server_info" -> 30
      [] OTHER                   -> 20

RECURSIVE SeqBytes(_)
SeqBytes(q) == IF q = <<>> THEN 0 ELSE TokenBytes(Head(q)) + SeqBytes(Tail(q))

\* buffer_size of __read_client_request
RecvBufferSize == 1024

\* chunk.find(b"\n"), counted from 1; 0 when there is none
FindNewline(chunk) ==
    IF \E i \in 1..Len(chunk) : chunk[i] = "NL"
    THEN CHOOSE i \in 1..Len(chunk) : chunk[i] = "NL" /\ \A j \in 1..(i - 1) : chunk[j] # "NL"
    ELSE 0

\* what __read_client_request keeps of a chunk that holds a newline
KeptOfChunk(chunk) == SubSeq(chunk, 1, FindNewline(chunk))

\* request_bytes.decode().strip(), json.loads and _ClientMessage(**dict):
\* the message, or "error" when one of them raises
ParseRequest(bytes) ==
    LET body == SelectSeq(bytes, LAMBDA x : x # "NL")
    IN  IF Len(body) = 1 THEN body[1] ELSE "error"

\* the branches, were get_frame to advance the sequencer
DispatchGetFrameAdvances(message) ==
    CASE message = "get_frame"       -> "adv_next"
      [] message = "get_server_info" -> "info"
      [] message = "next_image"      -> "adv_next"
      [] message = "error"           -> "close"
      [] OTHER                       -> "h_top"

\* the branches, were next_image ignored
DispatchIgnoresNextImage(message) ==
    CASE message = "get_frame"       -> "gf_pace"
      [] message = "get_server_info" -> "info"
      [] message = "error"           -> "close"
      [] OTHER                       -> "h_top"

\* the branches, were a message of another value to end the connection
DispatchClosesOnUnknown(message) ==
    CASE message = "get_frame"       -> "gf_pace"
      [] message = "get_server_info" -> "info"
      [] message = "next_image"      -> "adv_next"
      [] OTHER                       -> "close"

\* the branch of the request
Dispatch(message) ==
    CASE message = "get_frame"       -> "gf_pace"
      [] message = "get_server_info" -> "info"
      [] message = "next_image"      -> "adv_next"
      [] message = "error"           -> "close"
      [] OTHER                       -> "h_top"

\* chunk = client_socket.recv(buffer_size) gives some bytes
HandleRecv ==
    /\ pc["srv"] = "h_read"
    /\ c2s # <<>>
    /\ \E n \in 1..Len(c2s) :
        LET chunk == SubSeq(c2s, 1, n)
        IN  /\ SeqBytes(chunk) <= RecvBufferSize
            /\ c2s' = SubSeq(c2s, n + 1, Len(c2s))
            /\ IF FindNewline(chunk) # 0
               THEN /\ request_bytes' = request_bytes \o KeptOfChunk(chunk)
                    /\ discarded' = SubSeq(chunk, Len(KeptOfChunk(chunk)) + 1, n)
                    /\ request' = ParseRequest(request_bytes')
                    /\ pc' = [pc EXCEPT !["srv"] = Dispatch(request')]
               ELSE /\ request_bytes' = request_bytes \o chunk
                    /\ UNCHANGED <<discarded, pc, request>>
    /\ UNCHANGED <<envVars, seqVars, server_stop_requested, server_socket, start_result,
                   ctl_left, elapsed, wake, hdr, chunk_start, conn, s2c, cliVars,
                   frame_gap, since_sent, frame_payload, ended, yielded, reported, since_info>>

\* the client's close, were it to stop the server
HandleRecvClosedStopsServer ==
    /\ pc["srv"] = "h_read"
    /\ c2s = <<>>
    /\ conn.cli = "closed"
    /\ server_stop_requested' = TRUE
    /\ pc' = [pc EXCEPT !["srv"] = "close"]
    /\ UNCHANGED <<envVars, seqVars, server_socket, start_result,
                   ctl_left, srvLocals, connVars, cliVars, ghostVars>>

\* recv gives b"": the client closed; request is None: break
HandleRecvClosed ==
    /\ pc["srv"] = "h_read"
    /\ c2s = <<>>
    /\ conn.cli = "closed"
    /\ pc' = [pc EXCEPT !["srv"] = "close"]
    /\ UNCHANGED <<envVars, seqVars, server_stop_requested, server_socket, start_result,
                   ctl_left, srvLocals, connVars, cliVars, ghostVars>>

\* recv raises socket.timeout: except socket.timeout: continue
HandleRecvTimeout ==
    /\ pc["srv"] = "h_read"
    /\ c2s = <<>>
    /\ conn.cli = "open"
    /\ pc' = [pc EXCEPT !["srv"] = "h_top"]
    /\ UNCHANGED <<envVars, seqVars, server_stop_requested, server_socket, start_result,
                   ctl_left, srvLocals, connVars, cliVars, ghostVars>>

\* client_socket.sendall(items) by the serving thread, which goes on at
\* `next`; when the client has closed its end the bytes are lost and
\* sendall either returns or raises BrokenPipeError or ConnectionResetError,
\* which ends __handle_client_connection
ServerSend(items, next) ==
    \/ /\ conn.cli = "open"
       /\ s2c' = s2c \o items
       /\ pc' = [pc EXCEPT !["srv"] = next]
    \/ /\ conn.cli = "closed"
       /\ UNCHANGED s2c
       /\ \E nx \in {next, "close"} : pc' = [pc EXCEPT !["srv"] = nx]

\* request.message == "get_frame": the wait before the frame
HandleGetFrame ==
    /\ pc["srv"] = "gf_pace"
    /\ IF elapsed < FrameInterval
       THEN /\ wake' = FrameInterval - elapsed
            /\ pc' = [pc EXCEPT !["srv"] = "sleep"]
       ELSE /\ pc' = [pc EXCEPT !["srv"] = "w_shape"]
            /\ UNCHANGED wake
    /\ UNCHANGED <<envVars, seqVars, server_stop_requested, server_socket, start_result,
                   ctl_left, elapsed, request_bytes, request, hdr, chunk_start,
                   connVars, cliVars, ghostVars>>

\* time.sleep(wait_time) returns
HandleSleepDone ==
    /\ pc["srv"] = "sleep"
    /\ wake = 0
    /\ pc' = [pc EXCEPT !["srv"] = "w_shape"]
    /\ UNCHANGED <<envVars, seqVars, server_stop_requested, server_socket, start_result,
                   ctl_left, srvLocals, connVars, cliVars, ghostVars>>

\* __write_image_and_header_to_client: height, width, channels
WriteReadShape ==
    /\ pc["srv"] = "w_shape"
    /\ output_buffer # 0
    /\ current_image_path # 0
    /\ hdr' = <<image_shape[1], image_shape[2], IF Len(image_shape) = 3 THEN image_shape[3] ELSE 1>>
    /\ pc' = [pc EXCEPT !["srv"] = "w_hdr"]
    /\ UNCHANGED <<envVars, seqVars, server_stop_requested, server_socket, start_result,
                   ctl_left, elapsed, wake, request_bytes, request, chunk_start,
                   connVars, cliVars, ghostVars>>

\* the header is built with the current file name and sent
WriteHeader ==
    /\ pc["srv"] = "w_hdr"
    /\ ServerSend(<< <<"H", hdr[1], hdr[2], hdr[3], current_image_path>> >>, "w_chunk")
    /\ chunk_start' = 0
    /\ frame_gap' = since_sent
    /\ since_sent' = 0
    /\ frame_payload' = 0
    /\ UNCHANGED <<envVars, seqVars, server_stop_requested, server_socket, start_result,
                   ctl_left, elapsed, wake, request_bytes, request, hdr, conn, c2s, cliVars,
                   discarded, ended, yielded, reported, since_info>>

\* one turn of the loop that sends the output buffer chunk by chunk
WriteChunk ==
    /\ pc["srv"] = "w_chunk"
    /\ IF chunk_start < BufLen(output_buffer)
       THEN LET chunk_end == Min(chunk_start + ChunkSize, BufLen(output_buffer))
            IN  /\ ServerSend([k \in 1..(chunk_end - chunk_start) |->
                                  <<"B", output_buffer, chunk_start + k>>], "w_chunk")
                /\ chunk_start' = chunk_start + ChunkSize
                /\ frame_payload' = frame_payload + (chunk_end - chunk_start)
       ELSE /\ pc' = [pc EXCEPT !["srv"] = "w_done"]
            /\ UNCHANGED <<s2c, chunk_start, frame_payload>>
    /\ UNCHANGED <<envVars, seqVars, server_stop_requested, server_socket, start_result,
                   ctl_left, elapsed, wake, request_bytes, request, hdr, conn, c2s, cliVars,
                   frame_gap, since_sent, discarded, ended, yielded, reported, since_info>>

\* __write_image_and_header_to_client returns; the branch sets nothing
WriteDone ==
    /\ pc["srv"] = "w_done"
    /\ pc' = [pc EXCEPT !["srv"] = "h_top"]
    /\ UNCHANGED <<envVars, seqVars, server_stop_requested, server_socket, start_result,
                   ctl_left, srvLocals, connVars, cliVars, ghostVars>>

\* the get_server_info branch, were last_frame_time left alone
HandleGetServerInfoKeepsClock ==
    /\ pc["srv"] = "info"
    /\ ServerSend(<< <<"I", image_shape[2], image_shape[1], current_image_path,
                        frame_rate, PixelFormatValue("RGB8")>> >>, "h_top")
    /\ reported' = [fps |-> frame_rate, image_width |-> image_shape[2],
                    image_height |-> image_shape[1], camera_pixel_format |-> "RGB8"]
    /\ since_info' = IF pc'["srv"] = "h_top" THEN 0 ELSE since_info
    /\ UNCHANGED <<envVars, seqVars, server_stop_requested, server_socket, start_result,
                   ctl_left, srvLocals, conn, c2s,
                   cliVars, frame_gap, since_sent, frame_payload, discarded, ended, yielded>>

\* request.message == "get_server_info": the info line, then
\* last_frame_time = time.time()
HandleGetServerInfo ==
    /\ pc["srv"] = "info"
    /\ ServerSend(<< <<"I", image_shape[2], image_shape[1], current_image_path,
                        frame_rate, PixelFormatValue("RGB8")>> >>, "h_top")
    /\ reported' = [fps |-> frame_rate, image_width |-> image_shape[2],
                    image_height |-> image_shape[1], camera_pixel_format |-> "RGB8"]
    /\ elapsed' = IF pc'["srv"] = "h_top" THEN 0 ELSE elapsed
    /\ since_info' = IF pc'["srv"] = "h_top" THEN 0 ELSE since_info
    /\ UNCHANGED <<envVars, seqVars, server_stop_requested, server_socket, start_result,
                   ctl_left, wake, request_bytes, request, hdr, chunk_start, conn, c2s,
                   cliVars, frame_gap, since_sent, frame_payload, discarded, ended, yielded>>

\* the next_image branch, were it to answer with the new frame
HandleNextImageDoneSendsFrame ==
    /\ pc["srv"] = "ni_ok"
    /\ elapsed' = 0
    /\ pc' = [pc EXCEPT !["srv"] = "w_shape"]
    /\ UNCHANGED <<envVars, seqVars, server_stop_requested, server_socket, start_result,
                   ctl_left, wake, request_bytes, request, hdr, chunk_start,
                   connVars, cliVars, ghostVars>>

\* request.message == "next_image", the image was read:
\* last_frame_time = time.time()
HandleNextImageDone ==
    /\ pc["srv"] = "ni_ok"
    /\ elapsed' = 0
    /\ pc' = [pc EXCEPT !["srv"] = "h_top"]
    /\ UNCHANGED <<envVars, seqVars, server_stop_requested, server_socket, start_result,
                   ctl_left, wake, request_bytes, request, hdr, chunk_start,
                   connVars, cliVars, ghostVars>>

\* the clock advances by one tick; the statements of the serving thread take
\* no time, it is in time.sleep and in recv that time passes
Tick ==
    /\ pc["srv"] \in {"sleep", "h_read"}
    /\ \/ elapsed < FrameInterval
       \/ wake > 0
       \/ since_sent \in 0..(FrameInterval - 1)
       \/ since_info \in 0..(FrameInterval - 1)
    /\ elapsed' = Min(elapsed + 1, FrameInterval)
    /\ wake' = IF wake > 0 THEN wake - 1 ELSE 0
    /\ since_sent' = IF since_sent \in 0..(FrameInterval - 1) THEN since_sent + 1 ELSE since_sent
    /\ since_info' = IF since_info \in 0..(FrameInterval - 1) THEN since_info + 1 ELSE since_info
    /\ UNCHANGED <<envVars, seqVars, server_stop_requested, server_socket, start_result, pc,
                   ctl_left, request_bytes, request, hdr, chunk_start, connVars, cliVars,
                   frame_gap, frame_payload, discarded, ended, yielded, reported>>

(***************************************************************************)
(* The ImageFileClient.  Its caller makes one call at a time.  With a long  *)
(* read_timeout a read times out only when nothing is on its way: the      *)
(* timeout is longer than the frame interval and than the time the server  *)
(* needs to answer.  With a short one it may time out whenever no byte has *)
(* arrived.                                                                *)
(* A client connects when the server has closed the connection before it.  *)
(***************************************************************************)
\* a call returns res: last_result holds it, and log too when the call is a
\* get_frame or a request_next_image made on a connection
Returned(op, res, name, onconn) ==
    /\ last_result' = [op |-> op, res |-> res]
    /\ log' = IF onconn THEN Append(log, [op |-> op, res |-> res, name |-> name]) ELSE log

\* the caller makes its next call, op
Call(op) ==
    /\ cpc = "idle"
    /\ calls_left > 0
    /\ script # <<>> => script[Len(script) - calls_left + 1] = op
    /\ calls_left' = calls_left - 1
    /\ called' = op

\* the serving thread waits for a request, or has ended
ServerQuiet == pc["srv"] \in {"none", "done"} \/ (pc["srv"] = "h_read" /\ c2s = <<>>)

\* self.__socket.sendall(request line): ok is whether it returned.  Bytes
\* sent to an end the server has closed are lost, and sendall may raise.
ClientSend(message, ok) ==
    \/ /\ cl_socket # "stale"
       /\ conn.srv \in {"backlog", "open"}
       /\ c2s' = c2s \o <<message, "NL">>
       /\ ok
    \/ /\ cl_socket # "stale"
       /\ conn.srv \in {"fin", "rst"}
       /\ UNCHANGED c2s
    \/ /\ cl_socket = "stale"
       /\ UNCHANGED c2s
       /\ ~ ok

\* self.__socket = None without socket.close()
ClientCloseSocketForgets ==
    /\ cl_socket' = "None"
    /\ UNCHANGED <<sockets, connVars>>

\* socket.close() of an open socket: the descriptor is released
SocketClose ==
    /\ sockets' = sockets - 1
    /\ IF conn.srv \in {"fin", "rst"}
       THEN conn' = NoConn /\ c2s' = <<>> /\ s2c' = <<>>
       ELSE conn' = [conn EXCEPT !.cli = "closed"] /\ s2c' = <<>> /\ UNCHANGED c2s

\* __close_socket: self.__socket = None follows socket.close() inside the
\* try, so a close() that raises leaves the socket object in self.__socket
\* ("stale"); close() of a socket that is closed already does nothing
ClientCloseSocket ==
    \/ /\ cl_socket' = "None"
       /\ IF cl_socket = "open" THEN SocketClose ELSE UNCHANGED <<sockets, connVars>>
    \/ /\ close_raises
       /\ cl_socket = "open"
       /\ cl_socket' = "stale"
       /\ SocketClose

\* what __close_socket returned
CloseSocketResult == IF cl_socket' = "stale" THEN "RuntimeError" ELSE "None"

\* socket(), settimeout and connect of start_camera_streaming succeed
ClientConnect ==
    /\ server_socket = "listening"
    /\ conn = NoConn
    /\ conn' = [cli |-> "open", srv |-> "backlog"]
    /\ cl_socket' = "open"
    /\ sockets' = sockets + 1
    /\ streaming' = TRUE

\* the socket of a connect that failed stays in self.__socket
ConnectRefusedKeepsSocket ==
    /\ cl_socket' = "open"
    /\ sockets' = sockets + 1
    /\ UNCHANGED <<streaming, connVars>>

\* socket() and settimeout succeed and connect raises: __close_socket closes
\* the socket and self.__socket is None again, unless close() raises
ConnectRefused ==
    /\ cl_socket' \in (IF close_raises THEN {"None", "stale"} ELSE {"None"})
    /\ UNCHANGED <<sockets, streaming, connVars>>

\* start_camera_streaming that replaces a socket whose connection the server
\* has closed
StartCameraStreamingReplacesSocket ==
    /\ UNCHANGED <<readVars, bufVars, sizeVars, conn_lost>>
    /\ Call("start")
    /\ IF cl_socket # "None" /\ conn.srv \in {"fin", "rst"} /\ server_socket = "listening"
       THEN /\ conn' = [cli |-> "open", srv |-> "backlog"]
            /\ c2s' = <<>>
            /\ s2c' = <<>>
            /\ streaming' = TRUE
            /\ last_result' = [op |-> "start", res |-> "None"]
            /\ log' = <<>>
            /\ UNCHANGED <<cl_socket, sockets>>
       ELSE IF streaming \/ cl_socket # "None"
       THEN /\ Returned("start", "RuntimeError", 0, FALSE)
            /\ UNCHANGED <<cl_socket, sockets, streaming, connVars>>
       ELSE IF server_socket = "listening"
            THEN /\ ClientConnect
                 /\ last_result' = [op |-> "start", res |-> "None"]
                 /\ log' = <<>>
                 /\ UNCHANGED <<c2s, s2c>>
            ELSE /\ Returned("start", "ConnectionRefusedError", 0, FALSE)
                 /\ ConnectRefused
    /\ UNCHANGED <<envVars, seqVars, server_stop_requested, server_socket, start_result, pc,
                   ctl_left, srvLocals, cpc, cl_hdr, bytes_read, ghostVars>>

\* start_camera_streaming
StartCameraStreaming ==
    /\ UNCHANGED <<readVars, bufVars, sizeVars, conn_lost>>
    /\ Call("start")
    /\ IF streaming \/ cl_socket # "None"
       THEN /\ Returned("start", "RuntimeError", 0, FALSE)
            /\ UNCHANGED <<cl_socket, sockets, streaming, connVars>>
       ELSE IF server_socket = "listening"
            THEN /\ ClientConnect
                 /\ last_result' = [op |-> "start", res |-> "None"]
                 /\ log' = <<>>
                 /\ UNCHANGED <<c2s, s2c>>
            ELSE /\ Returned("start", "ConnectionRefusedError", 0, FALSE)
                 /\ ConnectRefused
    /\ UNCHANGED <<envVars, seqVars, server_stop_requested, server_socket, start_result, pc,
                   ctl_left, srvLocals, cpc, cl_hdr, bytes_read, ghostVars>>

\* stop_camera_streaming without self.__streaming = False
StopLeavesStreaming ==
    /\ UNCHANGED <<readVars, bufVars, sizeVars, conn_lost>>
    /\ Call("stop")
    /\ IF ~ streaming
       THEN /\ Returned("stop", "RuntimeError", 0, FALSE)
            /\ UNCHANGED <<cl_socket, sockets, streaming, connVars>>
       ELSE /\ UNCHANGED streaming
            /\ ClientCloseSocket
            /\ Returned("stop", "None", 0, FALSE)
    /\ UNCHANGED <<envVars, seqVars, server_stop_requested, server_socket, start_result, pc,
                   ctl_left, srvLocals, cpc, cl_hdr, bytes_read, ghostVars>>

\* stop_camera_streaming
StopCameraStreaming ==
    /\ UNCHANGED <<readVars, bufVars, sizeVars, conn_lost>>
    /\ Call("stop")
    /\ IF ~ streaming
       THEN /\ Returned("stop", "RuntimeError", 0, FALSE)
            /\ UNCHANGED <<cl_socket, sockets, streaming, connVars>>
       ELSE /\ streaming' = FALSE
            /\ ClientCloseSocket
            /\ Returned("stop", CloseSocketResult, 0, FALSE)
    /\ UNCHANGED <<envVars, seqVars, server_stop_requested, server_socket, start_result, pc,
                   ctl_left, srvLocals, cpc, cl_hdr, bytes_read, ghostVars>>

\* request_next_image that leaves the streaming state when sendall failed
ClientRequestNextImageGivesUp ==
    /\ UNCHANGED <<readVars, bufVars, sizeVars, sockets, conn_lost>>
    /\ Call("next")
    /\ advancers \in {"cli", "both"}
    /\ IF ~ streaming
       THEN Returned("next", "RuntimeError", 0, FALSE) /\ UNCHANGED <<c2s, streaming>>
       ELSE IF cl_socket = "None"
       THEN Returned("next", "ConnectionError", 0, FALSE) /\ UNCHANGED <<c2s, streaming>>
       ELSE \E ok \in BOOLEAN :
               /\ ClientSend("next_image", ok)
               /\ Returned("next", IF ok THEN "None" ELSE "RuntimeError", 0, TRUE)
               /\ streaming' = ok
    /\ UNCHANGED <<envVars, seqVars, server_stop_requested, server_socket, start_result, pc,
                   ctl_left, srvLocals, conn, s2c, cl_socket, cpc, cl_hdr,
                   bytes_read, ghostVars>>

\* ImageFileClient.request_next_image
ClientRequestNextImage ==
    /\ UNCHANGED <<readVars, bufVars, sizeVars, sockets, conn_lost>>
    /\ Call("next")
    /\ advancers \in {"cli", "both"}
    /\ IF ~ streaming
       THEN Returned("next", "RuntimeError", 0, FALSE) /\ UNCHANGED c2s
       ELSE IF cl_socket = "None"
       THEN Returned("next", "ConnectionError", 0, FALSE) /\ UNCHANGED c2s
       ELSE \E ok \in BOOLEAN :
               /\ ClientSend("next_image", ok)
               /\ Returned("next", IF ok THEN "None" ELSE "RuntimeError", 0, TRUE)
    /\ UNCHANGED <<envVars, seqVars, server_stop_requested, server_socket, start_result, pc,
                   ctl_left, srvLocals, conn, s2c, cl_socket, streaming, cpc, cl_hdr,
                   bytes_read, ghostVars>>

\* get_frame up to the request it sends
GetFrameSend ==
    /\ UNCHANGED <<readVars, bufVars, sizeVars, sockets, conn_lost>>
    /\ Call("get_frame")
    /\ IF ~ streaming
       THEN Returned("get_frame", "AssertionError", 0, FALSE) /\ UNCHANGED <<c2s, cpc>>
       ELSE IF cl_socket = "None"
       THEN Returned("get_frame", "ConnectionError", 0, FALSE) /\ UNCHANGED <<c2s, cpc>>
       ELSE \E ok \in BOOLEAN :
               /\ ClientSend("get_frame", ok)
               /\ IF ok
                  THEN cpc' = "gf_header" /\ UNCHANGED <<log, last_result>>
                  ELSE Returned("get_frame", "RuntimeError", 0, TRUE) /\ UNCHANGED cpc
    /\ cl_hdr' = <<0, 0, 0, 0>>
    /\ bytes_read' = 0
    /\ UNCHANGED <<envVars, seqVars, server_stop_requested, server_socket, start_result, pc,
                   ctl_left, srvLocals, conn, s2c, cl_socket, streaming, ghostVars>>

\* a recv_into of get_frame or __request_server_info that gives no bytes:
\* b"" after the server's close, ConnectionResetError after its reset (which
\* get_frame turns into a RuntimeError and initialize_camera returns as it
\* is), or socket.timeout; `closed` is the error b"" is turned into
ClientRecvFails(op, closed, onconn) ==
    /\ s2c = <<>>
    /\ \/ conn.srv = "fin" /\ Returned(op, closed, 0, onconn)
       \/ conn.srv = "rst"
          /\ Returned(op, IF op = "initialize" THEN "ConnectionResetError" ELSE "RuntimeError",
                      0, onconn)
       \/ /\ conn.srv \in {"backlog", "open"}
          /\ ServerQuiet \/ read_timeout = "short"
          /\ Returned(op, "TimeoutError", 0, onconn)

\* get_frame: the loop that reads the header line.  The chunk that holds
\* the newline may hold up to ChunkSize - 1 bytes behind it.
GetFrameHeader ==
    /\ UNCHANGED <<readVars, bufVars, sizeVars, sockets, called>>
    /\ cpc = "gf_header"
    /\ \/ /\ s2c # <<>>
          /\ s2c[1][1] = "H"
          /\ cl_hdr[1] # -1
          /\ \E k \in 0..Min(ChunkSize - 1, Len(s2c) - 1) :
                /\ cl_hdr' = <<s2c[1][2], s2c[1][3], s2c[1][4], s2c[1][5]>>
                /\ bytes_read' = k
                /\ s2c' = SubSeq(s2c, k + 2, Len(s2c))
          /\ cpc' = "gf_payload"
          /\ UNCHANGED <<log, last_result>>
       \/ /\ s2c # <<>>
          /\ s2c[1][1] = "B"
          /\ cl_hdr' = <<-1, 0, 0, 0>>
          /\ s2c' = Tail(s2c)
          /\ UNCHANGED <<cpc, bytes_read, log, last_result>>
       \/ /\ s2c # <<>>
          /\ s2c[1][1] = "I" \/ (s2c[1][1] = "H" /\ cl_hdr[1] = -1)
          /\ s2c' = Tail(s2c)
          /\ Returned("get_frame", IF cl_hdr[1] = -1 THEN "ValueError" ELSE "RuntimeError", 0, TRUE)
          /\ cpc' = "idle"
          /\ UNCHANGED <<cl_hdr, bytes_read>>
       \/ /\ ClientRecvFails("get_frame", "ConnectionError", TRUE)
          /\ cpc' = "idle"
          /\ UNCHANGED <<cl_hdr, bytes_read, s2c>>
    /\ conn_lost' = (conn_lost \/ (cpc' = "idle" /\ last_result'.res = "ConnectionError"))
    /\ UNCHANGED <<envVars, seqVars, server_stop_requested, server_socket, start_result, pc,
                   ctl_left, srvLocals, conn, c2s, cl_socket, streaming, calls_left, ghostVars>>

\* get_frame: the loop that reads the payload, and the frame it returns
GetFramePayload ==
    /\ UNCHANGED <<readVars, bufVars, sizeVars, sockets, called>>
    /\ cpc = "gf_payload"
    /\ LET total_bytes == cl_hdr[1] * cl_hdr[2] * cl_hdr[3]
       IN  IF bytes_read < total_bytes
           THEN \/ /\ s2c # <<>>
                   /\ \E n \in 1..Min(Min(ChunkSize, total_bytes - bytes_read), Len(s2c)) :
                         /\ s2c' = SubSeq(s2c, n + 1, Len(s2c))
                         /\ bytes_read' = bytes_read + n
                   /\ UNCHANGED <<cpc, log, last_result>>
                \/ /\ ClientRecvFails("get_frame", "ConnectionError", TRUE)
                   /\ cpc' = "idle"
                   /\ UNCHANGED <<bytes_read, s2c>>
           ELSE /\ Returned("get_frame", IF bytes_read = total_bytes THEN "frame" ELSE "RuntimeError",
                            IF bytes_read = total_bytes THEN cl_hdr[4] ELSE 0, TRUE)
                /\ cpc' = "idle"
                /\ UNCHANGED <<bytes_read, s2c>>
    /\ conn_lost' = (conn_lost \/ (cpc' = "idle" /\ last_result'.res = "ConnectionError"))
    /\ UNCHANGED <<envVars, seqVars, server_stop_requested, server_socket, start_result, pc,
                   ctl_left, srvLocals, conn, c2s, cl_socket, streaming, cl_hdr, calls_left,
                   ghostVars>>

\* initialize_camera up to the get_server_info request it sends
InitializeCameraSend ==
    /\ UNCHANGED <<readVars, bufVars, sizeVars, conn_lost>>
    /\ Call("initialize")
    /\ IF streaming \/ cl_socket # "None"
       THEN /\ Returned("initialize", "RuntimeError", 0, FALSE)
            /\ UNCHANGED <<cl_socket, sockets, streaming, connVars, cpc>>
       ELSE IF server_socket = "listening"
            THEN /\ ClientConnect
                 /\ c2s' = <<"get_server_info", "NL">>
                 /\ cpc' = "ic_read"
                 /\ log' = <<>>
                 /\ UNCHANGED <<s2c, last_result>>
            ELSE /\ ConnectRefused
                 /\ Returned("initialize",
                             IF cl_socket' = "stale" THEN "OSError" ELSE "ConnectionError",
                             0, FALSE)
                 /\ UNCHANGED cpc
    /\ UNCHANGED <<envVars, seqVars, server_stop_requested, server_socket, start_result, pc,
                   ctl_left, srvLocals, cl_hdr, bytes_read, ghostVars>>

\* what __request_server_info makes of the answer tok: "None" for an
\* ImageServerInfo, otherwise the exception
ServerInfoResult(tok) ==
    IF tok[1] # "I" THEN "TypeError"
    ELSE IF PixelFormatEnum(tok[6]) = "ValueError" THEN "ValueError" ELSE "None"

\* self.__fps, __image_width, __image_height, __camera_pixel_format are
\* set from the ImageServerInfo; an exception leaves them
TakeServerInfo(tok) ==
    IF ServerInfoResult(tok) = "None"
    THEN /\ fps' = tok[5]
         /\ image_width' = tok[2]
         /\ image_height' = tok[3]
         /\ camera_pixel_format' = PixelFormatEnum(tok[6])
    ELSE UNCHANGED sizeVars

\* initialize_camera without the stop_camera_streaming of its finally clause
InitializeCameraReadStaysConnected ==
    /\ UNCHANGED <<readVars, bufVars, called, conn_lost>>
    /\ cpc = "ic_read"
    /\ \/ /\ s2c # <<>>
          /\ Returned("initialize", ServerInfoResult(s2c[1]), 0, FALSE)
          /\ TakeServerInfo(s2c[1])
          /\ s2c' = Tail(s2c)
       \/ ClientRecvFails("initialize", "ConnectionError", FALSE) /\ UNCHANGED <<sizeVars, s2c>>
    /\ cpc' = "idle"
    /\ UNCHANGED <<envVars, seqVars, server_stop_requested, server_socket, start_result, pc,
                   ctl_left, srvLocals, cl_hdr, bytes_read, calls_left, ghostVars,
                   cl_socket, sockets, streaming, conn, c2s>>

\* initialize_camera: __request_server_info reads the answer, and the
\* finally clause calls stop_camera_streaming
InitializeCameraRead ==
    /\ UNCHANGED <<readVars, bufVars, called, conn_lost>>
    /\ cpc = "ic_read"
    /\ \/ /\ s2c # <<>>
          /\ Returned("initialize", ServerInfoResult(s2c[1]), 0, FALSE)
          /\ TakeServerInfo(s2c[1])
       \/ ClientRecvFails("initialize", "ConnectionError", FALSE) /\ UNCHANGED sizeVars
    /\ streaming' = FALSE
    /\ ClientCloseSocket
    /\ cpc' = "idle"
    /\ UNCHANGED <<envVars, seqVars, server_stop_requested, server_socket, start_result, pc,
                   ctl_left, srvLocals, cl_hdr, bytes_read, calls_left, ghostVars>>

\* deinitialize_camera
DeinitializeCamera ==
    /\ Call("deinit")
    /\ ClientCloseSocket
    /\ fps' = <<0, 1>>
    /\ image_width' = 0
    /\ image_height' = 0
    /\ camera_pixel_format' = "UNKNOWN"
    /\ Returned("deinit", CloseSocketResult, 0, FALSE)
    /\ UNCHANGED <<envVars, seqVars, server_stop_requested, server_socket, start_result, pc,
                   ctl_left, srvLocals, streaming, cpc, cl_hdr, bytes_read, readVars, conn_lost,
                   bufVars, ghostVars>>

(***************************************************************************)
(* The specification of the server, its control thread and one client.     *)
(***************************************************************************)
Next ==
    \/ StartServer
    \/ RequestNextImage
    \/ RequestServerStop
    \/ \E t \in {"srv", "ctl"} : ReadImageFromGenerator(t)
    \/ ServerBind
    \/ ServerLoopTest
    \/ ServerAccept
    \/ ServerAcceptTimeout
    \/ ServerCloseClient
    \/ HandleLoopTest
    \/ HandleRecv
    \/ HandleRecvClosed
    \/ HandleRecvTimeout
    \/ HandleGetFrame
    \/ HandleSleepDone
    \/ WriteReadShape
    \/ WriteHeader
    \/ WriteChunk
    \/ WriteDone
    \/ HandleGetServerInfo
    \/ HandleNextImageDone
    \/ Tick
    \/ StartCameraStreaming
    \/ StopCameraStreaming
    \/ ClientRequestNextImage
    \/ GetFrameSend
    \/ GetFrameHeader
    \/ GetFramePayload
    \/ InitializeCameraSend
    \/ InitializeCameraRead
    \/ DeinitializeCamera

Spec == Init /\ [][Next]_vars

\* the same program with a client whose read_timeout is short
InitTimeout ==
    /\ read_timeout = "short"
    /\ close_raises = FALSE
    /\ skip_pattern = {}
    /\ repeat \in BOOLEAN
    /\ InitAnyCalls
    /\ pc = [srv |-> "none", ctl |-> "start"]
    /\ InitObjects

SpecTimeout == InitTimeout /\ [][Next]_vars

\* the same program on a system where socket.close() may raise
InitCloseRaises ==
    /\ read_timeout = "long"
    /\ close_raises = TRUE
    /\ skip_pattern = {}
    /\ repeat \in BOOLEAN
    /\ InitAnyCalls
    /\ pc = [srv |-> "none", ctl |-> "start"]
    /\ InitObjects

SpecCloseRaises == InitCloseRaises /\ [][Next]_vars

\* a caller that recovers from a lost connection: it connects, asks for the
\* next image and a frame, and then stops, starts and calls get_frame again
RecoverScript == <<"start", "next", "get_frame", "stop", "start", "get_frame">>

InitRecover ==
    /\ wire = <<>>
    /\ \E k \in 1..MaxImages : walk = ServedDir(k, FALSE)
    /\ script = RecoverScript
    /\ root_is_dir = TRUE
    /\ port_free = TRUE
    /\ advancers = "cli"
    /\ calls_left = Len(script)
    /\ ctl_left = 0

\* any calls within the bounds, or the calls of the recovering caller
InitWithRecovery ==
    /\ read_timeout = "long"
    /\ close_raises = FALSE
    /\ skip_pattern = {}
    /\ repeat \in BOOLEAN
    /\ InitAnyCalls \/ InitRecover
    /\ pc = [srv |-> "none", ctl |-> "start"]
    /\ InitObjects

SpecRecover == InitWithRecovery /\ [][Next]_vars

\* the steps of the serving thread, which the interpreter keeps running
ServingThread ==
    \/ ServerBind \/ ServerLoopTest \/ ServerAccept \/ ServerAcceptTimeout \/ ServerCloseClient
    \/ HandleLoopTest \/ HandleRecv \/ HandleRecvClosed \/ HandleRecvTimeout
    \/ HandleGetFrame \/ HandleSleepDone \/ WriteReadShape \/ WriteHeader \/ WriteChunk
    \/ WriteDone \/ HandleGetServerInfo \/ HandleNextImageDone
    \/ ReadImageFromGenerator("srv")

\* the same program, with a serving thread that is not starved and a clock
\* that goes on
SpecFair == Spec /\ WF_vars(ServingThread) /\ WF_vars(Tick)

(***************************************************************************)
(* The specification of the server and a peer that uses a socket itself,   *)
(* as tests/test_image_file_server.py does: it connects, sends request     *)
(* lines of its own choice, among them one whose message the server does   *)
(* not know, reads what has arrived and closes.  calls_left counts what    *)
(* the peer has yet to do, called is what it did last, and log holds the   *)
(* requests it sent on the connection.                                     *)
(***************************************************************************)
\* the message values the peer sends
PeerMessages == {"get_frame", "get_server_info", "next_image", "hello"}

InitPeer ==
    /\ read_timeout = "long"
    /\ close_raises = FALSE
    /\ skip_pattern = {}
    /\ repeat \in BOOLEAN
    /\ wire = <<>>
    /\ \E k \in 0..MaxImages, corrupt \in BOOLEAN : walk = ServedDir(k, corrupt)
    /\ root_is_dir = TRUE
    /\ port_free \in BOOLEAN
    /\ script = <<>>
    /\ advancers = "cli"
    /\ calls_left = MaxPeerOps
    /\ ctl_left = 0
    /\ pc = [srv |-> "none", ctl |-> "start"]
    /\ InitObjects

\* what the peer's steps leave alone
PeerFrame ==
    UNCHANGED <<envVars, seqVars, server_stop_requested, server_socket, start_result, pc,
                ctl_left, srvLocals, cl_socket, streaming, cpc, cl_hdr, bytes_read,
                last_result, readVars, sizeVars, sockets, conn_lost, bufVars, ghostVars>>

\* client_socket.connect((host, port))
PeerConnect ==
    /\ calls_left > 0
    /\ server_socket = "listening"
    /\ conn = NoConn
    /\ conn' = [cli |-> "open", srv |-> "backlog"]
    /\ calls_left' = calls_left - 1
    /\ called' = "connect"
    /\ log' = <<>>
    /\ UNCHANGED <<c2s, s2c>>
    /\ PeerFrame

\* sendall of one request line
PeerSend ==
    /\ calls_left > 0
    /\ conn.cli = "open"
    /\ \E message \in PeerMessages :
          /\ ClientSend(message, TRUE)
          /\ called' = message
          /\ log' = Append(log, [op |-> message, res |-> "sent", name |-> 0])
    /\ calls_left' = calls_left - 1
    /\ UNCHANGED <<conn, s2c>>
    /\ PeerFrame

\* recv until all that has arrived is read
PeerRecv ==
    /\ conn.cli = "open"
    /\ s2c # <<>>
    /\ s2c' = <<>>
    /\ UNCHANGED <<conn, c2s, calls_left, called, log>>
    /\ PeerFrame

\* client_socket.close()
PeerClose ==
    /\ calls_left > 0
    /\ conn.cli = "open"
    /\ IF conn.srv \in {"fin", "rst"}
       THEN conn' = NoConn /\ c2s' = <<>> /\ s2c' = <<>>
       ELSE conn' = [conn EXCEPT !.cli = "closed"] /\ s2c' = <<>> /\ UNCHANGED c2s
    /\ calls_left' = calls_left - 1
    /\ called' = "close"
    /\ UNCHANGED log
    /\ PeerFrame

NextPeer ==
    \/ StartServer
    \/ RequestServerStop
    \/ \E t \in {"srv", "ctl"} : ReadImageFromGenerator(t)
    \/ ServerBind
    \/ ServerLoopTest
    \/ ServerAccept
    \/ ServerAcceptTimeout
    \/ ServerCloseClient
    \/ HandleLoopTest
    \/ HandleRecv
    \/ HandleRecvClosed
    \/ HandleRecvTimeout
    \/ HandleGetFrame
    \/ HandleSleepDone
    \/ WriteReadShape
    \/ WriteHeader
    \/ WriteChunk
    \/ WriteDone
    \/ HandleGetServerInfo
    \/ HandleNextImageDone
    \/ Tick
    \/ PeerConnect
    \/ PeerSend
    \/ PeerRecv
    \/ PeerClose

SpecPeer == InitPeer /\ [][NextPeer]_vars

\* the same, with a serving thread that is not starved and a clock that
\* goes on
SpecPeerFair == SpecPeer /\ WF_vars(ServingThread) /\ WF_vars(Tick)

(***************************************************************************)
(* The specification of the image path generator alone: a directory walk   *)
(* and a skip_pattern are chosen, the generator is created and next() is   *)
(* called on it until it is exhausted.                                     *)
(***************************************************************************)
InitGen ==
    /\ read_timeout = "long"
    /\ close_raises = FALSE
    /\ walk \in SeqsUpTo(EntryUniverse, MaxFiles)
    /\ skip_pattern \in SkipChoices
    /\ repeat = FALSE
    /\ root_is_dir = TRUE
    /\ port_free = TRUE
    /\ advancers = "cli"
    /\ script = <<>>
    /\ calls_left = 0
    /\ ctl_left = 0
    /\ pc = [srv |-> "none", ctl |-> "gen"]
    /\ wire = <<>>
    /\ InitObjects

\* __get_image_file_name_generator(image_path_root, skip_pattern) is called
GenCreate ==
    /\ pc["ctl"] = "gen"
    /\ image_file_name_gen = -1
    /\ image_file_name_gen' = 0
    /\ UNCHANGED <<envVars, current_image_path, output_buffer, image_shape, adv_image, advances,
                   server_stop_requested, server_socket, start_result, pc, ctl_left,
                   srvLocals, connVars, cliVars, ghostVars>>

\* next() on the generator: it yields a path or raises StopIteration
GenPull ==
    /\ pc["ctl"] = "gen"
    /\ image_file_name_gen >= 0
    /\ LET j == GenNext(walk, skip_pattern, image_file_name_gen)
       IN  IF j > 0
           THEN /\ image_file_name_gen' = j
                /\ yielded' = Append(yielded, j)
                /\ UNCHANGED pc
           ELSE /\ image_file_name_gen' = Len(walk)
                /\ pc' = [pc EXCEPT !["ctl"] = "gen_done"]
                /\ UNCHANGED yielded
    /\ UNCHANGED <<envVars, current_image_path, output_buffer, image_shape, adv_image, advances,
                   server_stop_requested, server_socket, start_result, ctl_left,
                   srvLocals, connVars, cliVars, frame_gap, since_sent, frame_payload, discarded, ended,
                   reported, since_info>>

NextGen == GenCreate \/ GenPull

SpecGen == InitGen /\ [][NextGen]_vars

(***************************************************************************)
(* The read specification: one get_frame or initialize_camera call, after  *)
(* its request was sent, byte by byte against any peer.  The peer sends    *)
(* the bytes of `wire` and then goes silent, closes or resets; each        *)
(* recv_into gives any number of the bytes that are left, from one up to   *)
(* the size asked for.  A byte is a tuple: <<"{">>, <<"}">>, <<"NL">>,     *)
(* <<"SP">> (white space), <<"x">> (anything else), <<"B", i>> (payload    *)
(* byte), <<"F", key, n, text>> (a key of the JSON object and its number   *)
(* or string), <<"info", w, h, fps, format>> (the content of a server info *)
(* line, image_width w and image_height h among them).                     *)
(***************************************************************************)
\* BUFFER_SIZE of get_frame
BUFFER_SIZE == 1024

\* the members of PixelFormatEnum
PixelFormatNames ==
    {"BGR8", "RGB8", "MONO8", "BayerGR8", "BayerBG8", "BayerRG8", "BayerGB8", "UNKNOWN"}

\* the fields of ImageFileHeader
HeaderFields == {"width", "height", "channels", "channel_format", "image_file_name"}

\* the ImageFileHeader __write_image_and_header_to_client builds for image img
ServerHeader(img) ==
    LET sh == ShapeOf(img)
    IN  [width |-> sh[2], height |-> sh[1],
         channels |-> IF Len(sh) = 3 THEN sh[3] ELSE 1,
         channel_format |-> "RGB8",
         image_file_name |-> FileNames[img]]

\* (json.dumps(image_header._asdict()) + "\n").encode("utf-8")
HeaderLine(H) ==
    << <<"{">>,
       <<"F", "width", H.width, "">>,
       <<"F", "height", H.height, "">>,
       <<"F", "channels", H.channels, "">>,
       <<"F", "channel_format", 0, H.channel_format>>,
       <<"F", "image_file_name", 0, H.image_file_name>>,
       <<"}">>, <<"NL">> >>

\* the payload bytes of a frame with header H
Payload(H) == [i \in 1..(H.width * H.height * H.channels) |-> <<"B", i>>]

\* chunk.find(b"\n"), counted from 1; 0 when there is none
NewlineIndex(chunk) ==
    IF \E i \in 1..Len(chunk) : chunk[i] = <<"NL">>
    THEN CHOOSE i \in 1..Len(chunk) :
            chunk[i] = <<"NL">> /\ \A j \in 1..(i - 1) : chunk[j] # <<"NL">>
    ELSE 0

IsSpace(b) == b = <<"NL">> \/ b = <<"SP">>

\* str.strip()
RECURSIVE Strip(_)
Strip(text) ==
    IF text = <<>> THEN <<>>
    ELSE IF IsSpace(text[1]) THEN Strip(Tail(text))
    ELSE IF IsSpace(text[Len(text)]) THEN Strip(SubSeq(text, 1, Len(text) - 1))
    ELSE text

\* json.loads accepts the text: an object of keys with values
IsJsonObject(text) ==
    /\ Len(text) >= 2
    /\ text[1] = <<"{">>
    /\ text[Len(text)] = <<"}">>
    /\ \A i \in 2..(Len(text) - 1) : text[i][1] \in {"F", "SP"}

\* the value json.loads gives key k: that of its last occurrence
JsonValue(text, k) ==
    LET at == CHOOSE i \in 1..Len(text) :
                 /\ text[i][1] = "F" /\ text[i][2] = k
                 /\ \A j \in (i + 1)..Len(text) : ~ (text[j][1] = "F" /\ text[j][2] = k)
    IN  text[at]

\* the header line with width and height taken for each other
DecodeHeaderSwapsWidthHeight(bytes) ==
    LET text == Strip(bytes)
        H    == [err |-> "none",
                 width |-> JsonValue(text, "height")[3],
                 height |-> JsonValue(text, "width")[3],
                 channels |-> JsonValue(text, "channels")[3],
                 channel_format |-> JsonValue(text, "channel_format")[4],
                 image_file_name |-> JsonValue(text, "image_file_name")[4]]
        bad(e) == [err |-> e, width |-> 0, height |-> 0, channels |-> 0,
                   channel_format |-> "", image_file_name |-> ""]
    IN  IF ~ IsJsonObject(text) THEN bad("JSONDecodeError")
        ELSE IF {text[i][2] : i \in {j \in 1..Len(text) : text[j][1] = "F"}} # HeaderFields
        THEN bad("TypeError")
        ELSE H

\* header_bytes.decode("utf-8").strip(), json.loads, ImageFileHeader(**dict):
\* the header, or the exception raised (err)
DecodeHeader(bytes) ==
    LET text == Strip(bytes)
        H    == [err |-> "none",
                 width |-> JsonValue(text, "width")[3],
                 height |-> JsonValue(text, "height")[3],
                 channels |-> JsonValue(text, "channels")[3],
                 channel_format |-> JsonValue(text, "channel_format")[4],
                 image_file_name |-> JsonValue(text, "image_file_name")[4]]
        bad(e) == [err |-> e, width |-> 0, height |-> 0, channels |-> 0,
                   channel_format |-> "", image_file_name |-> ""]
    IN  IF ~ IsJsonObject(text) THEN bad("JSONDecodeError")
        ELSE IF {text[i][2] : i \in {j \in 1..Len(text) : text[j][1] = "F"}} # HeaderFields
        THEN bad("TypeError")
        ELSE H

\* the header without the err field
HeaderOf(h) ==
    [width |-> h.width, height |-> h.height, channels |-> h.channels,
     channel_format |-> h.channel_format, image_file_name |-> h.image_file_name]

\* image_data_prefix = chunk[newline_index + 1:]
ImageDataPrefix(chunk) == SubSeq(chunk, NewlineIndex(chunk) + 1, Len(chunk))

\* the server info line, and what json.loads and ImageServerInfo(**dict)
\* make of the response without its last byte
InfoLine ==
    << <<"{">>, <<"info", 2, 1, frame_rate, PixelFormatValue("RGB8")>>, <<"}">>, <<"NL">> >>

DecodeInfo(bytes) ==
    IF SubSeq(bytes, 1, Len(bytes) - 1) = SubSeq(InfoLine, 1, 3)
    THEN "None" ELSE "JSONDecodeError"

\* the headers a peer may send: those of the served images, a greyscale one
\* of one byte, and one whose channel_format PixelFormatEnum does not have
ReadHeaders ==
    {ServerHeader(i) : i \in 1..3}
    \cup {[width |-> 1, height |-> 1, channels |-> 1, channel_format |-> "MONO8",
           image_file_name |-> "e"],
          [ServerHeader(3) EXCEPT !.channel_format = "YUV8"]}

Repeat(b, k) == [i \in 1..k |-> b]

Prefixes(w) == {SubSeq(w, 1, k) : k \in 0..Len(w)}

\* a frame message: the header line and the payload behind it
FrameMessage(H) == HeaderLine(H) \o Payload(H)

\* a frame message with p bytes of white space before the newline
PaddedMessage(H, p) ==
    SubSeq(HeaderLine(H), 1, 7) \o Repeat(<<"SP">>, p) \o << <<"NL">> >> \o Payload(H)

\* what the peer sends in answer to get_frame: a frame message, whole, cut
\* short or with the start of a next one behind it; a padded header line of
\* up to MAX_HEADER_SIZE + ChunkSize + 1 bytes; lines that are no header;
\* up to MAX_HEADER_SIZE + 2 * ChunkSize + 1 bytes without a newline
FrameWires ==
    UNION {Prefixes(FrameMessage(H)) : H \in ReadHeaders}
    \cup {FrameMessage(H) \o SubSeq(HeaderLine(H), 1, k) : H \in ReadHeaders, k \in 1..2}
    \cup {PaddedMessage(ServerHeader(1), p) : p \in 1..(MAX_HEADER_SIZE + ChunkSize - 7)}
    \cup {Repeat(<<"x">>, k) : k \in 1..(MAX_HEADER_SIZE + 2 * ChunkSize + 1)}
    \cup {<< <<"x">>, <<"NL">> >>, << <<"NL">> >>,
          << <<"{">>, <<"F", "width", 1, "">>, <<"}">>, <<"NL">> >>}

\* what the peer sends in answer to get_server_info
InfoWires ==
    Prefixes(InfoLine) \cup {<< <<"x">>, <<"NL">> >>, Repeat(<<"x">>, ChunkSize + 1)}

\* self.__socket.recv_into gave no bytes: b"" after the peer's close (the
\* error of the `== 0` test), ConnectionResetError after its reset (a
\* RuntimeError from get_frame, returned as it is by initialize_camera),
\* socket.timeout when the peer is silent
ZeroByteReadIsProtocolError(op) ==
    CASE conn.srv = "fin" -> "ValueError"
      [] conn.srv = "rst" -> IF op = "initialize" THEN "ConnectionResetError" ELSE "RuntimeError"
      [] OTHER            -> "TimeoutError"

RecvNothing(op) ==
    CASE conn.srv = "fin" -> "ConnectionError"
      [] conn.srv = "rst" -> IF op = "initialize" THEN "ConnectionResetError" ELSE "RuntimeError"
      [] OTHER            -> "TimeoutError"

\* the header loop without its test
HeaderNeverTooLong(bytes) == FALSE

\* len(header_bytes) > MAX_HEADER_SIZE
HeaderTooLong(bytes) == Len(bytes) > MAX_HEADER_SIZE

\* reshape takes any buffer
ReshapeTakesAny(buf, H) == TRUE

\* np.frombuffer(image_bytes).reshape((height, width, channels)) does not raise
ReshapeFits(buf, H) == Len(buf) = H.height * H.width * H.channels

\* a read of one call is chosen: the bytes the peer will send
InitRead ==
    /\ read_timeout = "long"
    /\ close_raises = FALSE
    /\ skip_pattern = {}
    /\ repeat = FALSE
    /\ walk = <<>>
    /\ root_is_dir = TRUE
    /\ port_free = TRUE
    /\ advancers = "cli"
    /\ script \in {<<"get_frame">>, <<"initialize">>}
    /\ calls_left = 1
    /\ ctl_left = 0
    /\ pc = [srv |-> "none", ctl |-> "peer"]
    /\ wire \in IF script[1] = "get_frame" THEN FrameWires ELSE InfoWires
    /\ InitObjects

\* the client is connected to the peer and get_frame or initialize_camera has
\* sent its request; the peer's answer is on its way, and behind it the peer
\* stays silent, closes or resets
ReadCall ==
    /\ pc["ctl"] = "peer"
    /\ Call(script[1])
    /\ \E ending \in {"open", "fin", "rst"} : conn' = [cli |-> "open", srv |-> ending]
    /\ s2c' = wire
    /\ cl_socket' = "open"
    /\ sockets' = sockets + 1
    /\ streaming' = TRUE
    /\ cpc' = IF script[1] = "get_frame" THEN "gf_header" ELSE "ic_read"
    /\ header_bytes' = <<>>
    /\ image_bytes' = <<>>
    /\ bytes_read' = 0
    /\ UNCHANGED <<envVars, seqVars, server_stop_requested, server_socket, start_result, pc,
                   ctl_left, srvLocals, c2s, cl_hdr, last_result, log, wire, frame, reads,
                   sizeVars, conn_lost, bufVars, ghostVars>>

\* get_frame returns res, and the GrabbedImage fr or no frame; its locals
\* are gone
ReadReturns(res, fr) ==
    /\ cpc' = "idle"
    /\ last_result' = [op |-> "get_frame", res |-> res]
    /\ frame' = fr
    /\ header_bytes' = <<>>
    /\ image_bytes' = <<>>
    /\ bytes_read' = 0

\* get_frame: one turn of the loop that reads the header line, and at the
\* newline the parse of the header
ReadHeaderLoop ==
    /\ pc["ctl"] = "peer"
    /\ cpc = "gf_header"
    /\ IF HeaderTooLong(header_bytes)
       THEN ReadReturns("ValueError", NoFrame) /\ UNCHANGED <<s2c, cl_hdr, reads>>
       ELSE IF s2c = <<>>
       THEN ReadReturns(RecvNothing("get_frame"), NoFrame) /\ UNCHANGED <<s2c, cl_hdr, reads>>
       ELSE \E bytes_received \in 1..Min(Min(BUFFER_SIZE, ChunkSize), Len(s2c)) :
               LET chunk == SubSeq(s2c, 1, bytes_received)
                   newline_index == NewlineIndex(chunk)
                   line == header_bytes \o SubSeq(chunk, 1, newline_index)
                   image_header == DecodeHeader(line)
               IN  /\ s2c' = SubSeq(s2c, bytes_received + 1, Len(s2c))
                   /\ reads' = [n |-> reads.n + 1, at |-> newline_index, len |-> bytes_received]
                   /\ IF newline_index = 0
                      THEN /\ header_bytes' = header_bytes \o chunk
                           /\ UNCHANGED <<cpc, cl_hdr, image_bytes, bytes_read, last_result, frame>>
                      ELSE IF image_header.err = "JSONDecodeError"
                      THEN ReadReturns("ValueError", NoFrame) /\ UNCHANGED cl_hdr
                      ELSE IF image_header.err # "none"
                      THEN ReadReturns("RuntimeError", NoFrame) /\ UNCHANGED cl_hdr
                      ELSE /\ header_bytes' = line
                           /\ cl_hdr' = HeaderOf(image_header)
                           /\ image_bytes' = ImageDataPrefix(chunk)
                           /\ bytes_read' = Len(ImageDataPrefix(chunk))
                           /\ cpc' = "gf_payload"
                           /\ UNCHANGED <<last_result, frame>>
    /\ conn_lost' = (conn_lost \/ (cpc' = "idle" /\ last_result'.res = "ConnectionError"))
    /\ UNCHANGED <<envVars, seqVars, server_stop_requested, server_socket, start_result, pc,
                   ctl_left, srvLocals, conn, c2s, cl_socket, streaming, calls_left, log, wire,
                   sizeVars, sockets, called, bufVars, ghostVars>>

\* get_frame: one turn of the loop that reads the payload, and behind the
\* loop the GrabbedImage made of the buffer
ReadPayloadLoop ==
    /\ pc["ctl"] = "peer"
    /\ cpc = "gf_payload"
    /\ LET total_bytes == cl_hdr.width * cl_hdr.height * cl_hdr.channels
       IN  IF bytes_read < total_bytes
           THEN IF s2c = <<>>
                THEN ReadReturns(RecvNothing("get_frame"), NoFrame) /\ UNCHANGED s2c
                ELSE \E n \in 1..Min(Min(ChunkSize, total_bytes - bytes_read), Len(s2c)) :
                        /\ image_bytes' = image_bytes \o SubSeq(s2c, 1, n)
                        /\ bytes_read' = bytes_read + n
                        /\ s2c' = SubSeq(s2c, n + 1, Len(s2c))
                        /\ UNCHANGED <<cpc, header_bytes, last_result, frame>>
           ELSE /\ IF ReshapeFits(image_bytes, cl_hdr)
                      /\ cl_hdr.channel_format \in PixelFormatNames
                   THEN ReadReturns("frame",
                                    [shape |-> <<cl_hdr.height, cl_hdr.width, cl_hdr.channels>>,
                                     pixel_format |-> cl_hdr.channel_format,
                                     image_file_name |-> cl_hdr.image_file_name,
                                     data |-> image_bytes])
                   ELSE ReadReturns("RuntimeError", NoFrame)
                /\ UNCHANGED s2c
    /\ conn_lost' = (conn_lost \/ (cpc' = "idle" /\ last_result'.res = "ConnectionError"))
    /\ UNCHANGED <<envVars, seqVars, server_stop_requested, server_socket, start_result, pc,
                   ctl_left, srvLocals, conn, c2s, cl_socket, streaming, cl_hdr, calls_left, log,
                   wire, reads, sizeVars, sockets, called, bufVars, ghostVars>>

\* initialize_camera: one turn of the loop of __request_server_info, at the
\* newline the parse of the answer, and the stop_camera_streaming of the
\* finally clause
ReadServerInfoLoop ==
    /\ pc["ctl"] = "peer"
    /\ cpc = "ic_read"
    /\ IF s2c = <<>>
       THEN /\ last_result' = [op |-> "initialize", res |-> RecvNothing("initialize")]
            /\ header_bytes' = <<>>
            /\ cpc' = "idle"
            /\ streaming' = FALSE
            /\ ClientCloseSocket
            /\ UNCHANGED <<bytes_read, reads, sizeVars>>
       ELSE \E bytes_received_count \in 1..Min(ChunkSize, Len(s2c)) :
               LET chunk == SubSeq(s2c, 1, bytes_received_count)
                   response_byte_array == header_bytes \o chunk
               IN  /\ reads' = [n |-> reads.n + 1, at |-> NewlineIndex(chunk),
                                len |-> bytes_received_count]
                   /\ IF NewlineIndex(chunk) = 0
                      THEN /\ header_bytes' = response_byte_array
                           /\ bytes_read' = bytes_read + bytes_received_count
                           /\ s2c' = SubSeq(s2c, bytes_received_count + 1, Len(s2c))
                           /\ UNCHANGED <<cpc, last_result, cl_socket, sockets, streaming, conn,
                                          c2s, sizeVars>>
                      ELSE /\ last_result' = [op |-> "initialize",
                                              res |-> DecodeInfo(response_byte_array)]
                           /\ IF DecodeInfo(response_byte_array) = "None"
                              THEN /\ fps' = response_byte_array[2][4]
                                   /\ image_width' = response_byte_array[2][2]
                                   /\ image_height' = response_byte_array[2][3]
                                   /\ camera_pixel_format' =
                                          PixelFormatEnum(response_byte_array[2][5])
                              ELSE UNCHANGED sizeVars
                           /\ header_bytes' = <<>>
                           /\ bytes_read' = 0
                           /\ cpc' = "idle"
                           /\ streaming' = FALSE
                           /\ ClientCloseSocket
    /\ UNCHANGED <<envVars, seqVars, server_stop_requested, server_socket, start_result, pc,
                   ctl_left, srvLocals, cl_hdr, calls_left, log, wire, image_bytes, frame,
                   called, conn_lost, bufVars, ghostVars>>

NextRead == ReadCall \/ ReadHeaderLoop \/ ReadPayloadLoop \/ ReadServerInfoLoop

SpecRead == InitRead /\ [][NextRead]_vars

\* a call that was made runs on: the caller's thread is scheduled
SpecReadFair == SpecRead /\ WF_vars(NextRead)

(***************************************************************************)
(* The buffer specification: two threads call the same connected client,   *)
(* each one get_frame or the __request_server_info of initialize_camera,   *)
(* after the requests were sent.  The threads share the socket, the        *)
(* scratch buffer and its lock; the interpreter switches between them at   *)
(* any statement.  The answer has arrived when the threads read, so each   *)
(* recv_into gives all the bytes it asks for, or all that are left.        *)
(***************************************************************************)
\* what the peer has sent when the threads read: the answer to the first of
\* the two requests, a frame or the server info
BufferWires == {FrameMessage(ServerHeader(3)), InfoLine}

InitBuffer ==
    /\ read_timeout = "long"
    /\ close_raises = FALSE
    /\ skip_pattern = {}
    /\ repeat = FALSE
    /\ walk = <<>>
    /\ root_is_dir = TRUE
    /\ port_free = TRUE
    /\ advancers = "cli"
    /\ script = <<>>
    /\ calls_left = 0
    /\ ctl_left = 0
    /\ pc = [srv |-> "none", ctl |-> "threads"]
    /\ wire \in BufferWires
    /\ InitObjects

\* the client is connected, the two threads have made their calls and the
\* requests are sent; behind its answers the peer stays silent or closes
ThreadsCall ==
    /\ pc["ctl"] = "threads"
    /\ \A t \in Threads : thr[t].pc = "none"
    /\ \E ending \in {"open", "fin"} : conn' = [cli |-> "open", srv |-> ending]
    /\ s2c' = wire
    /\ cl_socket' = "open"
    /\ sockets' = sockets + 1
    /\ streaming' = TRUE
    /\ \E ops \in [Threads -> {"get_frame", "info"}] :
          /\ \E t \in Threads : ops[t] = "get_frame"
          /\ (wire = InfoLine) => (\E t \in Threads : ops[t] = "info")
          /\ thr' = [t \in Threads |->
                        [NoCall EXCEPT !.op = ops[t],
                                       !.pc = IF ops[t] = "get_frame" THEN "hdr_top"
                                              ELSE "info_top"]]
    /\ UNCHANGED <<envVars, seqVars, server_stop_requested, server_socket, start_result, pc,
                   ctl_left, srvLocals, c2s, cpc, cl_hdr, bytes_read, calls_left, last_result,
                   log, readVars, sizeVars, called, conn_lost, input_chunk_buffer, buffer_lock,
                   ghostVars>>

\* what the threads' steps leave alone
ThreadFrame ==
    UNCHANGED <<envVars, seqVars, server_stop_requested, server_socket, start_result, pc,
                ctl_left, srvLocals, conn, c2s, cl_socket, streaming, cpc, cl_hdr, bytes_read,
                calls_left, last_result, log, readVars, lifeVars, ghostVars>>

\* the call of thread t returns res
ThreadReturns(t, res) == thr' = [thr EXCEPT ![t].pc = "done", ![t].res = res]

\* the error of a recv_into that gave nothing
ThreadRecvNothing == IF conn.srv = "fin" THEN "ConnectionError" ELSE "TimeoutError"

\* with self.__buffer_lock: thread t enters the block of its loop; before
\* it, get_frame tests the header size and the payload loop its end
ThreadAcquire(t) ==
    /\ thr[t].pc \in {"hdr_top", "pay_top", "info_top"}
    /\ IF thr[t].pc = "hdr_top" /\ HeaderTooLong(thr[t].header_bytes)
       THEN ThreadReturns(t, "ValueError") /\ UNCHANGED buffer_lock
       ELSE IF thr[t].pc = "pay_top" /\ Len(thr[t].image_bytes) >= thr[t].total_bytes
       THEN /\ ThreadReturns(t, IF Len(thr[t].image_bytes) = thr[t].total_bytes
                                THEN "frame" ELSE "RuntimeError")
            /\ UNCHANGED buffer_lock
       ELSE /\ buffer_lock = 0
            /\ buffer_lock' = t
            /\ thr' = [thr EXCEPT ![t].pc = CASE thr[t].pc = "hdr_top" -> "hdr_zero"
                                              [] thr[t].pc = "pay_top" -> "pay_zero"
                                              [] OTHER                -> "info_zero"]
    /\ UNCHANGED <<input_chunk_buffer, s2c>>
    /\ ThreadFrame

\* self.__input_chunk_buffer[:] = itertools.repeat(0, len(...))
ThreadZero(t) ==
    /\ thr[t].pc \in {"hdr_zero", "pay_zero", "info_zero"}
    /\ input_chunk_buffer' = [i \in 1..ChunkSize |-> <<"0">>]
    /\ thr' = [thr EXCEPT ![t].pc = CASE thr[t].pc = "hdr_zero" -> "hdr_recv"
                                      [] thr[t].pc = "pay_zero" -> "pay_recv"
                                      [] OTHER                 -> "info_recv"]
    /\ UNCHANGED <<buffer_lock, s2c>>
    /\ ThreadFrame

\* recv_into(self.__input_chunk_buffer, size) puts k bytes at the start of
\* the buffer
RecvInto(k) ==
    [i \in 1..ChunkSize |-> IF i <= k THEN s2c[i] ELSE input_chunk_buffer[i]]

\* get_frame, header loop: recv_into, and the end of the with block
HeaderRecv(t) ==
    /\ thr[t].pc = "hdr_recv"
    /\ buffer_lock' = 0
    /\ IF s2c = <<>>
       THEN /\ ThreadReturns(t, ThreadRecvNothing)
            /\ UNCHANGED <<input_chunk_buffer, s2c>>
       ELSE LET k == Min(Min(BUFFER_SIZE, ChunkSize), Len(s2c))
            IN /\ input_chunk_buffer' = RecvInto(k)
               /\ s2c' = SubSeq(s2c, k + 1, Len(s2c))
               /\ thr' = [thr EXCEPT ![t].pc = "hdr_copy", ![t].received = k,
                                     ![t].got = SubSeq(s2c, 1, k)]
    /\ ThreadFrame

\* get_frame, header loop behind the with block:
\* chunk = bytes(self.__input_chunk_buffer[:bytes_received]), the search for
\* the newline and, when it is found, the parse of the header
HeaderCopy(t) ==
    /\ thr[t].pc = "hdr_copy"
    /\ LET chunk == SubSeq(input_chunk_buffer, 1, thr[t].received)
           torn  == thr[t].torn \/ chunk # thr[t].got
           line  == thr[t].header_bytes \o SubSeq(chunk, 1, NewlineIndex(chunk))
           image_header == DecodeHeader(line)
       IN  IF NewlineIndex(chunk) = 0
           THEN thr' = [thr EXCEPT ![t].pc = "hdr_top", ![t].torn = torn,
                                   ![t].header_bytes = thr[t].header_bytes \o chunk]
           ELSE IF image_header.err # "none"
           THEN thr' = [thr EXCEPT ![t].pc = "done", ![t].torn = torn,
                                   ![t].res = IF image_header.err = "JSONDecodeError"
                                              THEN "ValueError" ELSE "RuntimeError"]
           ELSE thr' = [thr EXCEPT ![t].pc = "pay_top", ![t].torn = torn,
                                   ![t].header_bytes = line,
                                   ![t].total_bytes = image_header.width * image_header.height
                                                        * image_header.channels,
                                   ![t].image_bytes = ImageDataPrefix(chunk)]
    /\ UNCHANGED <<input_chunk_buffer, buffer_lock, s2c>>
    /\ ThreadFrame

\* get_frame, payload loop: recv_into, the copy into image_bytes and the end
\* of the with block
PayloadRecv(t) ==
    /\ thr[t].pc = "pay_recv"
    /\ buffer_lock' = 0
    /\ IF s2c = <<>>
       THEN /\ ThreadReturns(t, ThreadRecvNothing)
            /\ UNCHANGED <<input_chunk_buffer, s2c>>
       ELSE LET k == Min(Min(ChunkSize, thr[t].total_bytes - Len(thr[t].image_bytes)),
                         Len(s2c))
            IN /\ input_chunk_buffer' = RecvInto(k)
               /\ s2c' = SubSeq(s2c, k + 1, Len(s2c))
               /\ thr' = [thr EXCEPT ![t].pc = "pay_top", ![t].received = k,
                                     ![t].got = SubSeq(s2c, 1, k),
                                     ![t].image_bytes =
                                         thr[t].image_bytes \o SubSeq(RecvInto(k), 1, k)]
    /\ ThreadFrame

\* __request_server_info: recv_into, the search for the newline in the
\* buffer and the copy into response_byte_array, all inside the with block,
\* which ends with the loop
InfoRecv(t) ==
    /\ thr[t].pc = "info_recv"
    /\ IF s2c = <<>>
       THEN /\ ThreadReturns(t, ThreadRecvNothing)
            /\ buffer_lock' = 0
            /\ UNCHANGED <<input_chunk_buffer, s2c>>
       ELSE LET k == Min(ChunkSize, Len(s2c))
                response_byte_array == thr[t].header_bytes \o SubSeq(RecvInto(k), 1, k)
            IN     /\ input_chunk_buffer' = RecvInto(k)
                   /\ s2c' = SubSeq(s2c, k + 1, Len(s2c))
                   /\ IF NewlineIndex(RecvInto(k)) = 0
                      THEN /\ thr' = [thr EXCEPT ![t].pc = "info_zero", ![t].received = k,
                                                 ![t].got = SubSeq(s2c, 1, k),
                                                 ![t].header_bytes = response_byte_array]
                           /\ UNCHANGED buffer_lock
                      ELSE /\ thr' = [thr EXCEPT ![t].pc = "done", ![t].received = k,
                                                 ![t].got = SubSeq(s2c, 1, k),
                                                 ![t].header_bytes = response_byte_array,
                                                 ![t].res = DecodeInfo(response_byte_array)]
                           /\ buffer_lock' = 0
    /\ ThreadFrame

NextBuffer ==
    \/ ThreadsCall
    \/ \E t \in Threads :
          \/ ThreadAcquire(t)
          \/ ThreadZero(t)
          \/ HeaderRecv(t)
          \/ HeaderCopy(t)
          \/ PayloadRecv(t)
          \/ InfoRecv(t)

SpecBuffer == InitBuffer /\ [][NextBuffer]_vars

(***************************************************************************)
(* Properties of the read specification.                                   *)
(***************************************************************************)
\* get_frame has returned
FrameCallReturned == cpc = "idle" /\ last_result.op = "get_frame"

\* the header line of the stream w, the bytes behind it, and the header
HeaderLineOf(w) == SubSeq(w, 1, NewlineIndex(w))
BehindHeaderLine(w) == SubSeq(w, NewlineIndex(w) + 1, Len(w))
HeaderIn(w) == DecodeHeader(HeaderLineOf(w))

\* w is a frame message: a header line and exactly the payload it announces
WholeMessage(w) ==
    /\ NewlineIndex(w) > 0
    /\ HeaderIn(w).err = "none"
    /\ Len(BehindHeaderLine(w)) = HeaderIn(w).width * HeaderIn(w).height * HeaderIn(w).channels

\* the GrabbedImage of the header line and the payload of w
FrameIn(w) ==
    [shape |-> <<HeaderIn(w).height, HeaderIn(w).width, HeaderIn(w).channels>>,
     pixel_format |-> HeaderIn(w).channel_format,
     image_file_name |-> HeaderIn(w).image_file_name,
     data |-> BehindHeaderLine(w)]

\* what get_frame makes of the frame message w when the stream is not
\* split, each recv_into giving all the bytes it asks for
UnsplitFrame(w) ==
    LET read_size == Min(BUFFER_SIZE, ChunkSize)
        before    == read_size * ((NewlineIndex(w) - 1) \div read_size)
    IN  IF before > MAX_HEADER_SIZE \/ HeaderIn(w).channel_format \notin PixelFormatNames
        THEN NoFrame
        ELSE FrameIn(w)

\* C14: however the transport splits a frame message (header line plus
\* payload) into chunks, get_frame ends with the header and the payload it
\* gets from the unsplit stream.
C14_SplitIndependent ==
    FrameCallReturned /\ WholeMessage(wire) => frame = UnsplitFrame(wire)

\* C15: after a successful get_frame the next byte left on the connection,
\* if any, is the first byte of a server message (a frame header or a server
\* info line), never a payload byte.
C15_NextByteStartsMessage ==
    (cpc = "idle" /\ last_result = [op |-> "get_frame", res |-> "frame"])
        => (s2c = <<>> \/ s2c[1][1] \in {"H", "I"})

\* the stream starts with the header line the server encodes for H
StartsWithHeader(w, H) == Len(w) >= 8 /\ SubSeq(w, 1, 8) = HeaderLine(H)

\* C16: for every header H the server encodes, decoding its line gives H; the
\* header get_frame has parsed is H, and the frame it returns has shape
\* (H.height, H.width, H.channels), pixel format H.channel_format and
\* image_file_name H.image_file_name.
C16_HeaderRoundTrip ==
    \A i \in 1..3 :
        LET H == ServerHeader(i)
        IN  /\ HeaderOf(DecodeHeader(HeaderLine(H))) = H
            /\ DecodeHeader(HeaderLine(H)).err = "none"
            /\ (cpc = "gf_payload" /\ StartsWithHeader(wire, H)) => cl_hdr = H
            /\ (FrameCallReturned /\ last_result.res = "frame" /\ StartsWithHeader(wire, H))
                  => /\ frame.shape = <<H.height, H.width, H.channels>>
                     /\ frame.pixel_format = H.channel_format
                     /\ frame.image_file_name = H.image_file_name

\* the frame of the image that is higher than wide was returned
C16_Witness ==
    /\ FrameCallReturned
    /\ last_result.res = "frame"
    /\ wire = FrameMessage(ServerHeader(3))
    /\ frame.shape = <<2, 1, 1>>
    /\ frame.image_file_name = "c"

\* the length of the header line the stream w starts with: up to its first
\* newline, or all of it when it has none
HeaderLength(w) == IF NewlineIndex(w) > 0 THEN NewlineIndex(w) ELSE Len(w)

\* C17: a get_frame whose answer starts with a header line of more than
\* MAX_HEADER_SIZE bytes returns ValueError and no frame.
C17_OverlongHeaderRejected ==
    FrameCallReturned /\ HeaderLength(wire) > MAX_HEADER_SIZE
        => last_result.res = "ValueError" /\ frame = NoFrame

\* C18 as the spec states it: an unterminated header, behind which the peer
\* stays silent, makes get_frame return a protocol error (ValueError, or
\* RuntimeError for missing fields).
C18_AsStated ==
    FrameCallReturned /\ wire # <<>> /\ NewlineIndex(wire) = 0 /\ conn.srv = "open"
        => last_result.res \in {"ValueError", "RuntimeError"}

\* what get_frame returns for an answer without a newline
UnterminatedResult ==
    IF Len(wire) > MAX_HEADER_SIZE THEN "ValueError"
    ELSE CASE conn.srv = "fin" -> "ConnectionError"
           [] conn.srv = "rst" -> "RuntimeError"
           [] OTHER            -> "TimeoutError"

\* C18: when the answer to get_frame has no newline, get_frame terminates
\* with an error and no frame, never holding more than MAX_HEADER_SIZE plus
\* one read of header bytes: ValueError when the peer sends more than
\* MAX_HEADER_SIZE bytes, else TimeoutError when it goes silent,
\* ConnectionError when it closes, RuntimeError when it resets.
C18_UnterminatedHeaderEnds ==
    /\ [] (Len(header_bytes) <= MAX_HEADER_SIZE + Min(BUFFER_SIZE, ChunkSize))
    /\ [] (FrameCallReturned /\ NewlineIndex(wire) = 0
              => frame = NoFrame /\ last_result.res = UnterminatedResult)
    /\ (cpc = "gf_header") ~> FrameCallReturned

\* the peer sends on without a newline and get_frame has given up
C18_Witness ==
    /\ FrameCallReturned
    /\ NewlineIndex(wire) = 0
    /\ last_result.res = "ValueError"
    /\ s2c # <<>>

\* a recv_into of the step gives no bytes: the peer has closed and nothing
\* is left to read
ZeroByteRead ==
    /\ s2c = <<>>
    /\ conn.srv = "fin"
    /\ \/ cpc = "gf_header" /\ ~ HeaderTooLong(header_bytes)
       \/ cpc = "gf_payload" /\ bytes_read < cl_hdr.width * cl_hdr.height * cl_hdr.channels
       \/ cpc = "ic_read"

ZeroByteReadGivesConnectionError ==
    ZeroByteRead => /\ last_result'.res = "ConnectionError"
                    /\ cpc' = "idle"
                    /\ frame' = NoFrame

\* C19: a zero-byte read while get_frame reads the header or the payload, or
\* while the server info is fetched, ends the call with a ConnectionError
\* and no frame.
C19_ZeroByteReadIsConnectionError == [][ZeroByteReadGivesConnectionError]_vars

\* the peer closed behind a part of the payload, and get_frame has returned
\* ConnectionError
C19_Witness ==
    /\ FrameCallReturned
    /\ last_result.res = "ConnectionError"
    /\ NewlineIndex(wire) > 0
    /\ Len(BehindHeaderLine(wire)) >= 1
    /\ s2c = <<>>

\* the answer is a header line and less payload than it announces
CutMidPayload(w) ==
    /\ NewlineIndex(w) > 0
    /\ HeaderIn(w).err = "none"
    /\ Len(BehindHeaderLine(w)) < HeaderIn(w).width * HeaderIn(w).height * HeaderIn(w).channels

\* C20: get_frame returns a GrabbedImage only with exactly
\* width*height*channels payload bytes, those that follow the header line;
\* when it returns an error there is no frame and nothing is kept of the
\* buffers; an answer cut short in the payload gives the error of the read
\* that failed (ConnectionError after a close, TimeoutError after silence,
\* RuntimeError after a reset).
C20_NoPartialFrames ==
    /\ frame # NoFrame
          => /\ FrameCallReturned /\ last_result.res = "frame"
             /\ Len(frame.data) = frame.shape[1] * frame.shape[2] * frame.shape[3]
             /\ frame.data = SubSeq(BehindHeaderLine(wire), 1, Len(frame.data))
             /\ frame.shape = FrameIn(wire).shape
    /\ FrameCallReturned /\ last_result.res # "frame"
          => frame = NoFrame /\ image_bytes = <<>> /\ header_bytes = <<>>
    /\ FrameCallReturned /\ CutMidPayload(wire)
          => last_result.res = CASE conn.srv = "fin" -> "ConnectionError"
                                 [] conn.srv = "rst" -> "RuntimeError"
                                 [] OTHER            -> "TimeoutError"

\* the peer went silent behind a part of the payload, and get_frame has
\* returned TimeoutError and no frame
C20_Witness ==
    /\ FrameCallReturned
    /\ CutMidPayload(wire)
    /\ Len(BehindHeaderLine(wire)) >= 1
    /\ last_result.res = "TimeoutError"
    /\ frame = NoFrame
    /\ s2c = <<>>

(***************************************************************************)
(* Properties of the client's connection state.                            *)
(***************************************************************************)
\* the caller calls method op in this step
CallStep(op) == cpc = "idle" /\ calls_left' = calls_left - 1 /\ called' = op

StartRejectedChangesNothing ==
    (CallStep("start") /\ (streaming \/ cl_socket # "None"))
        => /\ last_result' = [op |-> "start", res |-> "RuntimeError"]
           /\ UNCHANGED <<cl_socket, sockets, streaming, connVars>>

StartFailedLeavesDisconnected ==
    (CallStep("start") /\ ~ streaming /\ cl_socket = "None" /\ last_result'.res # "None")
        => /\ last_result'.op = "start"
           /\ cl_socket' = "None"
           /\ sockets' = 0
           /\ ~ streaming'
           /\ UNCHANGED connVars

\* C21: start_camera_streaming on a client that is streaming or holds a
\* socket returns an error and leaves the socket, the connection and the
\* streaming flag as they are; on a disconnected client whose connect fails
\* it returns the error and leaves the client with no socket, not streaming.
C21_StartErrorsChangeNothing ==
    [][StartRejectedChangesNothing /\ StartFailedLeavesDisconnected]_vars

\* start_camera_streaming was rejected on a connected client, whose
\* connection is still open
C21_Witness ==
    /\ last_result = [op |-> "start", res |-> "RuntimeError"]
    /\ cl_socket = "open"
    /\ streaming
    /\ conn.cli = "open"
    /\ sockets = 1

StopDisconnects ==
    (CallStep("stop") /\ cl_socket = "open" /\ streaming)
        => /\ last_result' = [op |-> "stop", res |-> "None"]
           /\ cl_socket' = "None"
           /\ sockets' = 0
           /\ ~ streaming'
           /\ conn'.cli \in {"none", "closed"}

StopWhileDisconnectedChangesNothing ==
    (CallStep("stop") /\ cl_socket = "None" /\ ~ streaming)
        => /\ last_result' = [op |-> "stop", res |-> "RuntimeError"]
           /\ UNCHANGED <<cl_socket, sockets, streaming, connVars>>

\* C22: stop_camera_streaming on a connected client closes the socket and
\* leaves the client with no socket and not streaming; on a disconnected
\* client (no socket, not streaming) it returns a RuntimeError and changes
\* nothing.
C22_StopDisconnects ==
    [][StopDisconnects /\ StopWhileDisconnectedChangesNothing]_vars

\* a client that had received a frame was stopped, and its end of the
\* connection is closed
C22_Witness ==
    /\ last_result = [op |-> "stop", res |-> "None"]
    /\ cl_socket = "None"
    /\ ~ streaming
    /\ sockets = 0
    /\ conn.cli = "closed"
    /\ \E i \in DOMAIN log : log[i].res = "frame"

InitializeRejectedChangesNothing ==
    (CallStep("initialize") /\ (streaming \/ cl_socket # "None"))
        => /\ last_result' = [op |-> "initialize", res |-> "RuntimeError"]
           /\ cpc' = "idle"
           /\ UNCHANGED <<cl_socket, sockets, streaming, connVars>>

InitializeEndsDisconnected ==
    ((CallStep("initialize") /\ ~ streaming /\ cl_socket = "None") \/ cpc = "ic_read")
        /\ cpc' = "idle"
        => /\ last_result'.op = "initialize"
           /\ cl_socket' = "None"
           /\ sockets' = 0
           /\ ~ streaming'
           /\ conn'.cli \in {"none", "closed"}

StartAfterInitializeNotRejected ==
    (CallStep("start") /\ last_result.op = "initialize" /\ last_result.res # "RuntimeError")
        => last_result'.res \in {"None", "ConnectionRefusedError"}

\* C23: initialize_camera on a disconnected client ends, whatever it
\* returns, with no socket and the streaming flag false, and a
\* start_camera_streaming that follows is not rejected; on a client that is
\* streaming it returns a RuntimeError and leaves the connection as it is.
C23_InitializeLeavesNoConnection ==
    /\ [][InitializeRejectedChangesNothing]_vars
    /\ [][InitializeEndsDisconnected]_vars
    /\ [][StartAfterInitializeNotRejected]_vars
    /\ [] (cpc = "ic_read" => called = "initialize" /\ cl_socket = "open")

\* initialize_camera has fetched the server info, and the
\* start_camera_streaming behind it has connected
C23_Witness ==
    /\ last_result = [op |-> "start", res |-> "None"]
    /\ image_width > 0
    /\ cl_socket = "open"
    /\ streaming
    /\ sockets = 1

\* C24: whatever calls were made on the client, it has at most one open
\* socket, and a socket is open exactly when self.__socket refers to it.
C24_AtMostOneSocket ==
    /\ sockets \in {0, 1}
    /\ sockets = 1 <=> cl_socket = "open"
    /\ conn.cli = "open" <=> cl_socket = "open"

\* the client is on its second connection, the first one closed
C24_Witness ==
    /\ called = "start"
    /\ last_result = [op |-> "start", res |-> "None"]
    /\ sockets = 1
    /\ cl_socket = "open"
    /\ ended >= 1

\* C25: when deinitialize_camera has returned, the client has no socket and
\* is not in the streaming state.
C25_DeinitializeDisconnects ==
    (cpc = "idle" /\ last_result.op = "deinit") => (cl_socket = "None" /\ ~ streaming)

\* C26: get_frame gives its caller a value, a frame or an error, whatever
\* state the client is in; AssertionError stands for the assert statement
\* that raises instead.
C26_GetFrameReturnsValue ==
    last_result.op = "get_frame"
        => last_result.res \in {"frame", "RuntimeError", "ConnectionError", "TimeoutError",
                                "ValueError"}

\* a step of get_frame or of request_next_image
GetFrameOrNextStep ==
    \/ CallStep("get_frame")
    \/ CallStep("next")
    \/ cpc \in {"gf_header", "gf_payload"}

FrameCallsKeepConnectionState ==
    GetFrameOrNextStep
        => /\ UNCHANGED <<cl_socket, sockets, streaming>>
           /\ conn'.cli = conn.cli

OnlyStartAndStopChangeConnectionState ==
    /\ (cl_socket' # cl_socket \/ streaming' # streaming)
          => (CallStep("start") \/ CallStep("stop") \/ CallStep("initialize")
              \/ CallStep("deinit") \/ cpc = "ic_read")
    /\ (cl_socket = "None" /\ cl_socket' = "open")
          => (CallStep("start") \/ CallStep("initialize"))

\* C27: no step of get_frame or request_next_image, succeeding or failing,
\* opens, closes or replaces the client's socket or changes the streaming
\* flag; these change only in start_camera_streaming, stop_camera_streaming,
\* initialize_camera and deinitialize_camera, and a socket is only opened by
\* a call of start_camera_streaming or initialize_camera.
C27_OnlyStartStopChangeConnection ==
    [][FrameCallsKeepConnectionState /\ OnlyStartAndStopChangeConnectionState]_vars

\* get_frame found the connection closed by the server, and the client
\* still holds its socket and is still streaming
C27_Witness ==
    /\ cpc = "idle"
    /\ last_result = [op |-> "get_frame", res |-> "ConnectionError"]
    /\ conn_lost
    /\ cl_socket = "open"
    /\ streaming

\* the last call was a get_frame that found the connection closed by the
\* server
FrameCallLostConnection ==
    /\ cpc = "idle"
    /\ last_result = [op |-> "get_frame", res |-> "ConnectionError"]
    /\ cl_socket = "open"

StartRecovers ==
    (FrameCallLostConnection /\ CallStep("start") /\ server_socket = "listening")
        => (last_result' = [op |-> "start", res |-> "None"] /\ conn'.srv = "backlog")

\* C28 as the spec states it: after a get_frame that failed because the
\* server closed the connection, start_camera_streaming opens a new
\* connection when the server is listening.
C28_AsStated == [][StartRecovers]_vars

StartAloneIsRejected ==
    (FrameCallLostConnection /\ CallStep("start"))
        => /\ last_result' = [op |-> "start", res |-> "RuntimeError"]
           /\ UNCHANGED <<cl_socket, sockets, streaming, connVars>>

StopThenStartReconnects ==
    /\ (FrameCallLostConnection /\ CallStep("stop"))
          => /\ last_result' = [op |-> "stop", res |-> "None"]
             /\ cl_socket' = "None"
             /\ ~ streaming'
    /\ (CallStep("start") /\ last_result = [op |-> "stop", res |-> "None"]
            /\ server_socket = "listening")
          => /\ last_result' = [op |-> "start", res |-> "None"]
             /\ cl_socket' = "open"
             /\ streaming'
             /\ conn' = [cli |-> "open", srv |-> "backlog"]

\* C28: after a get_frame that failed because the server closed the
\* connection, start_camera_streaming alone is rejected and changes nothing;
\* stop_camera_streaming disconnects the client, and the
\* start_camera_streaming behind it opens a new connection when the server
\* is listening.
C28_StopThenStartRecovers ==
    [][StartAloneIsRejected /\ StopThenStartReconnects]_vars

\* the recovering caller lost its connection, stopped, started, and its
\* get_frame on the new connection returned a frame
C28_Witness ==
    /\ script = RecoverScript
    /\ calls_left = 0
    /\ conn_lost
    /\ cpc = "idle"
    /\ last_result = [op |-> "get_frame", res |-> "frame"]

\* C29: what a thread copies out of the scratch buffer is what its own
\* recv_into put there; torn records a copy that was not.
C29_BufferNeverOverwritten == \A t \in Threads : ~ thr[t].torn

\* C30: after every get_frame that returned a frame, image_width and
\* image_height are the width and the height of that frame (cl_hdr holds
\* the header the frame was built from: height, width, channels, name).
C30_SizeIsThatOfLastFrame ==
    (cpc = "idle" /\ last_result = [op |-> "get_frame", res |-> "frame"])
        => (image_width = cl_hdr[2] /\ image_height = cl_hdr[1])

(***************************************************************************)
(* Properties of initialize_camera and of the server's handlers.           *)
(***************************************************************************)
\* a step of an initialize_camera call, and the step in which it returns
InitializeStep == CallStep("initialize") \/ (cpc = "ic_read" /\ cpc' # "ic_read")
InitializeReturns == InitializeStep /\ cpc' = "idle"

\* initialize_camera returns None: the four fields are those of the
\* ImageServerInfo the server built for it
InitializeTakesServerInfo ==
    (InitializeReturns /\ last_result'.res = "None")
        => /\ fps' = reported.fps
           /\ image_width' = reported.image_width
           /\ image_height' = reported.image_height
           /\ camera_pixel_format' = reported.camera_pixel_format

\* any other step of initialize_camera leaves the four fields
InitializeErrorKeepsFields ==
    (InitializeStep /\ ~ (cpc' = "idle" /\ last_result'.res = "None"))
        => UNCHANGED sizeVars

\* C31: when initialize_camera returns None, fps, image_width, image_height
\* and camera_pixel_format are the frame rate, the width and height of the
\* current image and the pixel format of the ServerInfo the server built
\* for this call; when it returns an error the four fields are unchanged.
C31_InitializeTakesServerInfo ==
    /\ [][InitializeTakesServerInfo]_vars
    /\ [][InitializeErrorKeepsFields]_vars

\* initialize_camera has returned None after the server reported the size
\* of the second image, which is 2 by 2
C31_Witness ==
    /\ cpc = "idle"
    /\ last_result = [op |-> "initialize", res |-> "None"]
    /\ fps = frame_rate
    /\ camera_pixel_format = "RGB8"
    /\ image_width = 2
    /\ image_height = 2

\* the serving thread has written bytes to the client connection
ServerWrote == Len(s2c') > Len(s2c)

\* what a step writes is the header line or payload bytes of a get_frame,
\* or the one line of a get_server_info
WritesAnswerOnly ==
    ServerWrote =>
        \/ /\ request = "get_frame"
           /\ pc["srv"] \in {"w_hdr", "w_chunk"}
           /\ \A i \in (Len(s2c) + 1)..Len(s2c') :
                 s2c'[i][1] = (IF pc["srv"] = "w_hdr" THEN "H" ELSE "B")
        \/ /\ request = "get_server_info"
           /\ Len(s2c') = Len(s2c) + 1
           /\ s2c'[Len(s2c')][1] = "I"

\* no step made while a next_image request is handled writes
NextImageWritesNothing == (request = "next_image") => ~ ServerWrote

\* C32: handling a next_image request writes no byte to the connection,
\* whether the advance succeeds or fails; bytes are written only for
\* get_frame (a header line, then payload) and get_server_info (one line).
C32_NextImageWritesNothing ==
    /\ [][WritesAnswerOnly]_vars
    /\ [][NextImageWritesNothing]_vars

\* the serving thread has handled a next_image that advanced and then one
\* that found the sequence exhausted, and nothing is on its way to the client
C32_Witness ==
    /\ pc["srv"] = "h_top"
    /\ request = "next_image"
    /\ s2c = <<>>
    /\ \E i, j \in 1..Len(advances) :
          /\ i < j
          /\ advances[i].by = "srv" /\ advances[i].res = "True"
          /\ advances[j].by = "srv" /\ advances[j].res = "False"

\* the request being handled has a message value the server does not know
UnknownRequest(message) ==
    message \notin {"none", "error", "get_frame", "get_server_info", "next_image"}

\* the step in which such a request is read writes nothing, leaves the
\* sequencer and the stop flag alone and keeps the connection
UnknownRequestHasNoEffect ==
    (UnknownRequest(request') /\ ~ UnknownRequest(request))
        => /\ UNCHANGED <<s2c, seqVars, server_stop_requested>>
           /\ conn'.srv = "open"
           /\ pc'["srv"] = "h_top"

\* the serving thread's next step is the test of the loop, which goes on to
\* read the next request unless a stop was requested meanwhile
UnknownRequestThenNextRead ==
    (UnknownRequest(request) /\ pc'["srv"] # pc["srv"])
        => /\ pc'["srv"] = (IF server_stop_requested THEN "close" ELSE "h_read")
           /\ UNCHANGED <<s2c, seqVars, server_stop_requested, conn>>

\* C33: a request whose message is none of get_frame, get_server_info and
\* next_image is ignored: the server writes nothing, does not advance the
\* sequencer, does not set the stop flag, keeps the connection open and
\* goes back to the test of its loop and from there to reading the next
\* request.
C33_UnknownRequestIgnored ==
    /\ [] (UnknownRequest(request) => (pc["srv"] = "h_top" /\ conn.srv = "open"))
    /\ [][UnknownRequestHasNoEffect]_vars
    /\ [][UnknownRequestThenNextRead]_vars

\* the peer sent a request the server does not know and then asked for the
\* server info, and the answer to the second request has arrived
C33_Witness ==
    /\ Len(log) = 2
    /\ log[1].op = "hello"
    /\ log[2].op = "get_server_info"
    /\ s2c # <<>>
    /\ s2c[1][1] = "I"
    /\ pc["srv"] = "h_read"

\* C34: a get_frame is not answered before a frame interval has passed
\* since the server answered a get_server_info on the same connection: while
\* the serving thread writes a frame, at least FrameInterval ticks have
\* passed since the last server info of the connection.
C34_ServerInfoResetsPacing ==
    (pc["srv"] \in {"w_shape", "w_hdr", "w_chunk", "w_done"})
        => since_info \notin 0..(FrameInterval - 1)

\* the peer asked for the server info and then for a frame; the info was
\* sent a frame interval ago and the serving thread writes the header
C34_Witness ==
    /\ Len(log) = 2
    /\ log[1].op = "get_server_info"
    /\ log[2].op = "get_frame"
    /\ pc["srv"] = "w_hdr"
    /\ since_info = FrameInterval
    /\ ended = 0

\* the recv of __read_client_request times out: the serving thread waits
\* for a request of a connected client, none has arrived, and it moves on
ReadTimesOut ==
    /\ pc["srv"] = "h_read"
    /\ c2s = <<>>
    /\ conn.cli = "open"
    /\ pc'["srv"] # "h_read"

ReadTimeoutEndsConnection ==
    ReadTimesOut => (pc'["srv"] = "close" /\ UNCHANGED server_stop_requested)

\* C35: when no request arrives within the client read timeout, the server
\* ends the connection (it goes on to close the client socket and from
\* there to the accept loop) and does not set the stop flag.
C35_ReadTimeoutEndsConnection == [][ReadTimeoutEndsConnection]_vars

\* C36: a peer that connects and reads without sending a request receives
\* a frame: from a connection on which nothing was sent, bytes arrive for
\* the peer to read, unless it sends or closes after all or the server is
\* asked to stop.
C36_FrameWithoutRequest ==
    (conn.cli = "open" /\ conn.srv = "open" /\ log = <<>>)
        ~> (s2c # <<>> \/ log # <<>> \/ conn.cli # "open" \/ server_stop_requested)

\* get_frame has returned a frame, and only the client asks for the next
\* image
FrameReturnedToSoleAdvancer ==
    /\ advancers = "cli"
    /\ cpc = "idle"
    /\ last_result = [op |-> "get_frame", res |-> "frame"]

\* C37: a get_frame that succeeds returns the frame the server produced for
\* its own request, also after an earlier get_frame on the connection timed
\* out: when only the client advances the sequencer, the frame get_frame has
\* returned is of the server's current image file, so that a frame asked
\* for after request_next_image is never the image before it.
C37_FrameIsOfCurrentImage ==
    FrameReturnedToSoleAdvancer => cl_hdr[4] = current_image_path

\* height, width and channels of image number img, as a header gives them
HeaderDims(img) ==
    <<ShapeOf(img)[1], ShapeOf(img)[2], IF Len(ShapeOf(img)) = 3 THEN ShapeOf(img)[3] ELSE 1>>

\* byte j of the stream is a payload byte of the frame whose header is byte i
PayloadOfHeader(i, j) ==
    /\ i < j
    /\ s2c[i][1] = "H"
    /\ \A k \in (i + 1)..j : s2c[k][1] = "B"

\* C38: every frame on its way to the client is a snapshot of one image: the
\* dimensions of its header are those of the file the header names, and the
\* payload bytes behind the header are bytes of that file, also when the
\* control thread asks for the next image while the frame is written.
C38_FrameIsOneImage ==
    \A i \in 1..Len(s2c) :
        s2c[i][1] = "H" =>
            /\ <<s2c[i][2], s2c[i][3], s2c[i][4]>> = HeaderDims(walk[s2c[i][5]].img)
            /\ \A j \in 1..Len(s2c) :
                  PayloadOfHeader(i, j) => s2c[j][2] = walk[s2c[i][5]].img

\* C39: when the serving thread has ended (wait_for_server_stop returns),
\* after a stop request, the exhaustion of the sequencer or a failed bind,
\* the listening socket is closed and no accepted client socket is open.
C39_SocketsClosedAtThreadEnd ==
    pc["srv"] = "done" => (server_socket # "listening" /\ conn.srv # "open")

NumImages == Cardinality({j \in DOMAIN walk : GenYields(walk[j], {})})

\* every image file of the served directory can be decoded
AllDecodable == \A j \in DOMAIN walk : GenYields(walk[j], skip_pattern) => walk[j].img # 0

\* the first image file of the served directory cannot be decoded
FirstImageBad ==
    LET j == GenNext(walk, skip_pattern, 0) IN j > 0 /\ walk[j].img = 0

\* log entry e is a get_frame that returned the frame of image number i
FrameOf(e, i) ==
    e.op = "get_frame" /\ e.res = "frame" /\ e.name \in DOMAIN walk /\ walk[e.name].img = i

\* C1: on one connection the server never sends two consecutive frames less
\* than 1/F seconds (FrameInterval ticks) apart: when a frame's header is
\* sent, the time since the header of the frame before it on the connection
\* (frame_gap, -1 for the first frame) is at least the interval.
C1_FrameRateCeiling == frame_gap = -1 \/ frame_gap >= FrameInterval

\* C2: for every frame the server has written completely, the header's
\* width*height*channels is the number of payload bytes written behind it,
\* also when the control thread calls request_next_image meanwhile.
C2_HeaderMatchesPayload ==
    pc["srv"] = "w_done" => frame_payload = hdr[1] * hdr[2] * hdr[3]

\* C3: while the client is connected and the server is not asked to stop no
\* get_frame request is lost: the client never waits for the answer to a
\* get_frame that the server has read and thrown away, with nothing on the
\* way in either direction and the server waiting for the next request.
C3_NoGetFrameLost ==
    ~ ( /\ cpc = "gf_header"
        /\ conn = [cli |-> "open", srv |-> "open"]
        /\ ~ server_stop_requested
        /\ pc["srv"] = "h_read"
        /\ c2s = <<>> /\ s2c = <<>> /\ request_bytes = <<>>
        /\ \E i \in DOMAIN discarded : discarded[i] = "get_frame" )

\* a step of the serving thread
ServingThreadStep == pc'["srv"] # pc["srv"] \/ chunk_start' # chunk_start

\* the client's log never holds two get_frame calls in a row that returned
\* frames of different files, when only the client can ask for the next image
SameFileUntilNextImage ==
    advancers = "cli" =>
        \A i \in 1..(Len(log) - 1) :
            /\ log[i].op = "get_frame" /\ log[i].res = "frame"
            /\ log[i + 1].op = "get_frame" /\ log[i + 1].res = "frame"
            => log[i].name = log[i + 1].name

\* a step the serving thread takes for a GetFrame or a GetServerInfo request
\* leaves the sequencer as it is
HandlingLeavesSequencer ==
    (request \in {"get_frame", "get_server_info"} /\ ServingThreadStep)
        => (UNCHANGED <<image_file_name_gen, current_image_path, output_buffer, image_shape>>)

\* C4: no step the serving thread takes to handle a GetFrame or a
\* GetServerInfo request changes the sequencer (generator, current path,
\* output buffer, shape), and consecutive get_frame calls with no next-image
\* request between them return frames of the same image file.
C4_GetFrameAndInfoNeverAdvance ==
    /\ [] SameFileUntilNextImage
    /\ [][HandlingLeavesSequencer]_vars

\* the client got two frames in a row, of the same file, and the serving
\* thread has handled a get_frame after the sequencer had advanced
C4_Witness ==
    /\ advancers = "cli"
    /\ Len(advances) >= 2
    /\ \E i \in 1..(Len(log) - 1) :
          /\ log[i].op = "get_frame" /\ log[i].res = "frame"
          /\ log[i + 1].op = "get_frame" /\ log[i + 1].res = "frame"
          /\ log[i].name = log[i + 1].name

LostRequest(e) == e.op = "get_frame" /\ e.res \in {"TimeoutError", "ConnectionError", "RuntimeError"}

C6_NoRepeatKAdvances ==
    ~ repeat /\ NumImages >= 1 /\ AllDecodable /\ advancers # "both" =>
        \A n \in 1..Len(advances) :
            IF n <= NumImages
            THEN advances[n].res = "True" /\ advances[n].img = n
            ELSE advances[n].res = "False" /\ server_stop_requested

\* K = 2 or more images were served and advance K+1 has failed
C6_Witness ==
    /\ ~ repeat /\ NumImages >= 2 /\ AllDecodable /\ advancers # "both"
    /\ Len(advances) = NumImages + 1
    /\ advances[NumImages].res = "True"
    /\ advances[NumImages + 1].res = "False"
    /\ server_stop_requested

\* C7: with repeat=true over K >= 1 decodable images, when the advances are
\* made one after the other, every advance succeeds, advance n yields image
\* ((n-1) mod K) + 1, and so advance n+K yields the file of advance n.
C7_RepeatWrapsAround ==
    repeat /\ NumImages >= 1 /\ AllDecodable /\ advancers # "both" =>
        /\ \A n \in 1..Len(advances) :
              advances[n].res = "True" /\ advances[n].img = ((n - 1) % NumImages) + 1
        /\ \A n \in 1..(Len(advances) - NumImages) :
              advances[n].img = advances[n + NumImages].img

\* over 2 or more images, advance K+1 has been made: it yields image 1 again
C7_Witness ==
    /\ repeat /\ NumImages >= 2 /\ AllDecodable /\ advancers # "both"
    /\ Len(advances) >= NumImages + 1
    /\ advances[NumImages + 1].img = advances[1].img
    /\ advances[NumImages].img # advances[1].img

\* C11: once start_server has returned True and the stop flag is set, the
\* serving thread eventually ends (wait_for_server_stop returns), whatever
\* the client does: not connected, connected and idle, or sending requests.
C11_StopRequestEndsServingThread ==
    (start_result = "True" /\ server_stop_requested) ~> (pc["srv"] = "done")

\* request_server_stop was called (with repeat and a free port nothing else
\* sets the flag) and the serving thread has ended while the client, which
\* was served a frame, still holds its connection
C11_Witness ==
    /\ repeat /\ port_free /\ start_result = "True"
    /\ server_stop_requested
    /\ pc["srv"] = "done"
    /\ conn.cli = "open"
    /\ \E i \in DOMAIN log : log[i].res = "frame"

\* thread t made the advance that found the sequencer exhausted
Exhausted(t) ==
    \E n \in DOMAIN advances : advances[n].res = "False" /\ advances[n].by = t

\* a step that writes nothing to the client and accepts no connection
WritesAndAcceptsNothing ==
    /\ Len(s2c') <= Len(s2c)
    /\ ~ (pc["srv"] = "accept" /\ pc'["srv"] = "h_top")

\* a started server whose sequencer is exhausted writes and accepts nothing
ExhaustedIsQuiet ==
    (Exhausted("srv") \/ Exhausted("ctl")) /\ start_result = "True" => WritesAndAcceptsNothing

\* C12 as stated: after a NextImage request of the client or of the control
\* API has exhausted the sequencer, the server writes nothing further to the
\* client and accepts no further connection.
C12_AsStated == [][ExhaustedIsQuiet]_vars

\* after the client's NextImage request has exhausted the sequencer the
\* server writes and accepts nothing
ClientExhaustedIsQuiet == Exhausted("srv") => WritesAndAcceptsNothing

\* C12: an advance that exhausts the sequencer with repeat=false leaves the
\* stop flag set, and on a started server the server loop then eventually
\* ends; when it was the client's NextImage request that exhausted it, the
\* server writes nothing further to the client and accepts no connection.
C12_ExhaustionStopsServer ==
    /\ [] (Exhausted("srv") \/ Exhausted("ctl") => ~ repeat /\ server_stop_requested)
    /\ [][ClientExhaustedIsQuiet]_vars
    /\ ((Exhausted("srv") \/ Exhausted("ctl")) /\ start_result = "True") ~> (pc["srv"] = "done")

\* the client's next_image exhausted the sequencer and the serving thread
\* has ended, the client still holding its connection
C12_Witness ==
    /\ Exhausted("srv")
    /\ server_stop_requested
    /\ pc["srv"] = "done"
    /\ conn.cli = "open"

\* a step the serving thread takes for a connection, other than the advance
\* of a next_image request, leaves the stop flag as it is; the step that
\* closes the connection leads back to the accept loop
ConnectionStepLeavesFlag ==
    /\ ( /\ pc["srv"] \notin {"none", "bind", "loop", "accept", "done", "adv_next"}
         /\ ServingThreadStep )
       => (UNCHANGED server_stop_requested)
    /\ (pc["srv"] = "close" /\ ServingThreadStep) => (pc'["srv"] = "loop")

\* C13: no step that handles a connection sets the stop flag, but the
\* exhaustion found by a next_image request: an unparsable request, a reset,
\* a broken pipe, a read timeout and the client's close leave it; the
\* connection over, the serving thread is back in its accept loop, where the
\* listening socket is open for the next client.
C13_ConnectionFailuresLeaveServer ==
    /\ [][ConnectionStepLeavesFlag]_vars
    /\ [] (pc["srv"] \in {"loop", "accept"} => server_socket = "listening")

\* a connection has ended, the stop flag is not set, and the client got a
\* frame on a later connection
C13_Witness ==
    /\ ended >= 1
    /\ ~ server_stop_requested
    /\ conn = [cli |-> "open", srv |-> "open"]
    /\ \E i \in DOMAIN log : log[i].res = "frame"

\* text holds pattern at some place
Contains(text, pattern) ==
    \E i \in 1..(Len(text) + 1) :
        \A k \in 1..Len(pattern) : i + k - 1 <= Len(text) /\ text[i + k - 1] = pattern[k]

\* the name ends with a dot and ext, behind at least one more character
EndsWithExtension(name, ext) ==
    Len(name) >= 3 /\ name[Len(name)] = ext /\ name[Len(name) - 1] = "."

\* a regular file with suffix .jpg or .png whose absolute path holds no
\* skip substring
IsWantedImage(entry) ==
    /\ entry.kind = "file"
    /\ EndsWithExtension(entry.file, "jpg") \/ EndsWithExtension(entry.file, "png")
    /\ \A pattern \in skip_pattern :
          ~ Contains(Cwd \o <<"/">> \o entry.root \o <<"/">> \o entry.file, pattern)

\* C8: what the image path generator has yielded is, in the order of the
\* walk, exactly the entries it has passed that are regular files with suffix
\* .jpg or .png (case-sensitive) and whose absolute path holds none of the
\* skip substrings; when it is exhausted it has passed every entry.
C8_GeneratorYieldsExactlyWantedImages ==
    pc["ctl"] \in {"gen", "gen_done"} /\ image_file_name_gen >= 0 =>
        /\ \A i \in 1..Len(yielded), j \in 1..Len(yielded) : i < j => yielded[i] < yielded[j]
        /\ {yielded[i] : i \in 1..Len(yielded)}
             = {j \in 1..image_file_name_gen : IsWantedImage(walk[j])}
        /\ pc["ctl"] = "gen_done" => image_file_name_gen = Len(walk)

\* the generator is exhausted, has yielded a file, has skipped a .jpg file
\* for a skip substring and has skipped a .jpg that is no regular file
C8_Witness ==
    /\ pc["ctl"] = "gen_done"
    /\ Len(yielded) >= 1
    /\ \E j \in DOMAIN walk :
          /\ walk[j].kind = "file" /\ EndsWithExtension(walk[j].file, "jpg")
          /\ ~ IsWantedImage(walk[j])
    /\ \E j \in DOMAIN walk : walk[j].kind = "other"

\* C9: when the root yields no image or the first image cannot be decoded,
\* start_server returns False, for either value of repeat, and starts no
\* serving thread; it does not raise.
C9_StartServerReturnsFalse ==
    start_result # "none" /\ root_is_dir /\ (NumImages = 0 \/ FirstImageBad) =>
        start_result = "False" /\ pc["srv"] = "none"

\* C10: when bind or listen fails, start_server has returned False;
\* start_server returns True only for a server that is serving.
C10_StartTrueOnlyWhenServing ==
    server_socket = "closed" => start_result = "False"

====
